---- MODULE Spec2Model ----
(***************************************************************************)
(* Model of the natural-language command pipeline of DualExplorer          *)
(* (src/dual_explorer.py): the chat history store (ChatDatabase), the      *)
(* assistant dialog (AIDialog.send / call_ai / on_response / execute and   *)
(* the do_* file operations) and the part of the main window they read     *)
(* (the two panels' current paths and the active panel).                   *)
(*                                                                         *)
(* File names and glob patterns are sequences of one-character strings, so *)
(* that fnmatch and the substring checks of the code are computed, not     *)
(* assumed.  The platform is POSIX: os.path.normcase is the identity.      *)
(***************************************************************************)
EXTENDS Integers, Sequences, FiniteSets, TLC

----------------------------------------------------------------------------
(* Bounds of the model *)

MaxEntries == 2

MaxDialogs == 2

----------------------------------------------------------------------------
(* Characters, names and patterns *)

\* str.lower() on the characters the model uses
LowerChar(c) ==
    CASE c = "A" -> "a"
      [] c = "N" -> "n"
      [] c = "D" -> "d"
      [] c = "B" -> "b"
      [] c = "T" -> "t"
      [] c = "u0411" -> "u0431"
      [] c = "u041a" -> "u043a"
      [] c = "u041c" -> "u043c"
      [] c = "u0413" -> "u0433"
      [] c = "u0422" -> "u0442"
      [] OTHER -> c

Lower(s) == [i \in 1..Len(s) |-> LowerChar(s[i])]

\* Python's (sub in s) on strings
Contains(s, sub) ==
    \E i \in 0..(Len(s) - Len(sub)) :
        \A j \in 1..Len(sub) : s[i + j] = sub[j]

\* Python's s.startswith(prefix)
StartsWith(s, prefix) ==
    /\ Len(s) >= Len(prefix)
    /\ \A j \in 1..Len(prefix) : s[j] = prefix[j]

\* index of the first "]" at or after position j of pat, Len(pat)+1 if none
RECURSIVE ClassEnd(_, _)
ClassEnd(pat, j) ==
    IF j > Len(pat) THEN j
    ELSE IF pat[j] = "]" THEN j
    ELSE ClassEnd(pat, j + 1)

\* fnmatch.translate: where the character class opened at pat[1] = "[" ends
\* (the position of its closing "]"), Len(pat)+1 when it is not closed
ClassClose(pat) ==
    LET j1 == IF Len(pat) >= 2 /\ pat[2] = "!" THEN 3 ELSE 2
        j2 == IF j1 <= Len(pat) /\ pat[j1] = "]" THEN j1 + 1 ELSE j1
    IN  ClassEnd(pat, j2)

\* the characters of a closed class pat[1..close] and whether it is negated
ClassNegated(pat) == Len(pat) >= 2 /\ pat[2] = "!"

ClassChars(pat, close) ==
    LET first == IF ClassNegated(pat) THEN 3 ELSE 2
    IN  {pat[k] : k \in first..(close - 1)}

\* fnmatch.fnmatchcase(name, pat): shell glob with *, ? and [seq] / [!seq]
RECURSIVE fnmatch(_, _)
fnmatch(name, pat) ==
    IF pat = <<>> THEN name = <<>>
    ELSE IF Head(pat) = "*"
        THEN fnmatch(name, Tail(pat))
             \/ (name # <<>> /\ fnmatch(Tail(name), pat))
    ELSE IF Head(pat) = "?"
        THEN name # <<>> /\ fnmatch(Tail(name), Tail(pat))
    ELSE IF Head(pat) = "[" /\ ClassClose(pat) <= Len(pat)
        THEN LET close == ClassClose(pat)
                 rest == SubSeq(pat, close + 1, Len(pat))
             IN  /\ name # <<>>
                 /\ (Head(name) \in ClassChars(pat, close)) # ClassNegated(pat)
                 /\ fnmatch(Tail(name), rest)
    ELSE name # <<>> /\ Head(name) = Head(pat) /\ fnmatch(Tail(name), Tail(pat))

----------------------------------------------------------------------------
(* The filesystem: two directories, each mapping a name to an entry.  An   *)
(* entry is absent, a file with a content, or a directory with the names   *)
(* of the entries below it.                                                *)

Dirs == {"A", "B"}

NameA == <<"a", ".", "t">>

NameB == <<"b", ".", "t">>

NameC == <<"c", ".", "l">>

Names == {NameA, NameB, NameC}

NoEntry == [kind |-> "none", content |-> "", kids |-> {}]

File(c) == [kind |-> "file", content |-> c, kids |-> {}]

Dir(ks) == [kind |-> "dir", content |-> "", kids |-> ks]

\* os.path.exists / os.path.isdir of <dir>/<name>
exists(fs, dir, n) == fs[dir][n].kind # "none"

isdir(fs, dir, n) == fs[dir][n].kind = "dir"

\* the names os.listdir(dir) returns, in no particular order
listdir(fs, dir) == {n \in Names : exists(fs, dir, n)}

\* every order in which os.listdir may return the names of a directory
Orders(S) ==
    {o \in [1..Cardinality(S) -> S] : \A i, j \in 1..Cardinality(S) : o[i] = o[j] => i = j}

\* Exceptions are records: the kind of the error and the item it names
Err(kind, item) == [kind |-> kind, item |-> item]

NoErr == Err("none", <<>>)

\* the result of one file-system call: the file system after it, and whether it raised
Done(fs) == [ok |-> TRUE, fs |-> fs]

Raised(fs) == [ok |-> FALSE, fs |-> fs]

\* shutil.copytree(src, dst, dirs_exist_ok=True) / shutil.copy2(src, dst) for
\* src = from/n and dst = to/n.  A name in locked cannot be opened (the
\* operating system raises PermissionError), which leaves everything as it is.
CopyItem(fs, from, to, n, locked) ==
    LET src == fs[from][n]
        dst == fs[to][n]
    IN  IF n \in locked THEN Raised(fs)
        ELSE IF src.kind = "dir"
            THEN IF dst.kind = "file" THEN Raised(fs)        \* os.makedirs: FileExistsError
                 ELSE IF from = to
                     \* copying a directory onto itself: every child is "the same
                     \* file" and copytree raises; with no child nothing is copied
                     THEN IF src.kids = {} THEN Done(fs) ELSE Raised(fs)
                 ELSE Done([fs EXCEPT ![to][n] = Dir(dst.kids \cup src.kids)])
        ELSE IF from = to THEN Raised(fs)                    \* shutil.SameFileError
        ELSE IF dst.kind = "dir"
            \* copy2 into an existing directory writes dst/<name>
            THEN Done([fs EXCEPT ![to][n] = Dir(dst.kids \cup {n})])
        ELSE Done([fs EXCEPT ![to][n] = File(src.content)])

\* shutil.move(src, dst) for src = from/n and dst = to/n
MoveItem(fs, from, to, n, locked) ==
    LET src == fs[from][n]
        dst == fs[to][n]
    IN  IF n \in locked THEN Raised(fs)
        ELSE IF from = to THEN Done(fs)                      \* os.rename(x, x)
        ELSE IF dst.kind = "dir"
            \* the source goes below the existing directory, unless dst/<name> exists
            THEN IF n \in dst.kids THEN Raised(fs)
                 ELSE Done([fs EXCEPT ![to][n] = Dir(dst.kids \cup {n}),
                                      ![from][n] = NoEntry])
        ELSE IF dst.kind = "file" /\ src.kind = "dir" THEN Raised(fs)
        ELSE Done([fs EXCEPT ![to][n] = src, ![from][n] = NoEntry])

\* a delete that removes files and leaves a directory in place
DeleteItem_filesOnly(fs, dir, n, locked) ==
    IF n \in locked THEN Raised(fs)
    ELSE IF fs[dir][n].kind = "dir" THEN Done(fs)
    ELSE Done([fs EXCEPT ![dir][n] = NoEntry])

\* shutil.rmtree(path) / os.remove(path) for path = dir/n
DeleteItem(fs, dir, n, locked) ==
    IF n \in locked THEN Raised(fs)
    ELSE Done([fs EXCEPT ![dir][n] = NoEntry])

----------------------------------------------------------------------------
(* The command object parsed from the interpreter's answer.  A dict is a   *)
(* record with the set of keys that are present; the field of an absent    *)
(* key holds a filler that is never read.                                  *)

Params(keys, pattern, from, to, name, content, old_name, new_name) ==
    [keys |-> keys, pattern |-> pattern, from |-> from, to |-> to, name |-> name,
     content |-> content, old_name |-> old_name, new_name |-> new_name,
     old |-> <<>>, new |-> <<>>]

\* the empty dict {}
EmptyParams == Params({}, <<>>, "", "", <<>>, "", <<>>, <<>>)

\* Python's None where a params dict is expected (JSON null)
NullParams == Params({"<None>"}, <<>>, "", "", <<>>, "", <<>>, <<>>)

\* Python's None where a string is expected
Null == "<None>"

Cmd(keys, action, params, message) ==
    [keys |-> keys, action |-> action, params |-> params, message |-> message]

\* the names the code falls back to when params has no "name"
DefaultFolderName == <<"N">>

DefaultFileName == <<"n", ".", "t">>

\* the Cyrillic letter of the Russian word for "and" (U+0438), one character
CyrI == "u0438"

\* a guard that knows the comma only
IsMultiFile_commaOnly(pattern) == Contains(pattern, <<",">>)

\* the multi-file guard of do_copy, do_move and do_delete
IsMultiFile(pattern) ==
    \/ Contains(pattern, <<",">>)
    \/ Contains(Lower(pattern), <<" ", CyrI, " ">>)
    \/ Contains(Lower(pattern), <<" ", "a", "n", "d", " ">>)

\* What the window holds when a command executes: the two panels' current
\* paths and the active side.
PanelPath(win, side) == IF side = "left" THEN win.left ELSE win.right

\* The result of one executor operation: the file system after it, the
\* exception it raised, whether it read a directory listing, and the items it
\* applied, in order.  src, dst and items record the directories the
\* operation resolved and the listing it read.
ExecResult(fs, err, listed, applied) ==
    [fs |-> fs, err |-> err, listed |-> listed, applied |-> applied,
     src |-> "", dst |-> "", items |-> <<>>]

Resolved(r, src, dst, items) == [r EXCEPT !.src = src, !.dst = dst, !.items = items]

\* for item in os.listdir(...): if fnmatch(item, pattern): copy, count or raise
RECURSIVE copy_loop(_, _, _, _, _, _, _)
copy_loop(fs, from, to, pattern, items, locked, applied) ==
    IF items = <<>> THEN ExecResult(fs, NoErr, TRUE, applied)
    ELSE LET item == Head(items)
         IN  IF fnmatch(item, pattern)
             THEN LET r == CopyItem(fs, from, to, item, locked)
                  IN  IF r.ok
                      THEN copy_loop(r.fs, from, to, pattern, Tail(items), locked,
                                     Append(applied, item))
                      ELSE ExecResult(r.fs, Err("ItemFailure", item), TRUE, applied)
             ELSE copy_loop(fs, from, to, pattern, Tail(items), locked, applied)

\* a do_copy that returns normally when nothing was copied
do_copy_silentNoMatch(p, fs, win, listing, locked) ==
    LET from_path == IF "from" \in p.keys /\ p.from = "left" THEN win.left ELSE win.right
        to_path == IF "to" \in p.keys /\ p.to = "right" THEN win.right ELSE win.left
        pattern == IF "pattern" \in p.keys THEN p.pattern ELSE <<"*">>
    IN  IF IsMultiFile(pattern)
        THEN Resolved(ExecResult(fs, Err("InvalidCommand", <<>>), FALSE, <<>>),
                      from_path, to_path, <<>>)
        ELSE Resolved(copy_loop(fs, from_path, to_path, pattern,
                                listing[from_path], locked, <<>>),
                      from_path, to_path, listing[from_path])

\* AIDialog.do_copy(p); listing is what os.listdir returns for any directory
do_copy(p, fs, win, listing, locked) ==
    LET from_path == IF "from" \in p.keys /\ p.from = "left" THEN win.left ELSE win.right
        to_path == IF "to" \in p.keys /\ p.to = "right" THEN win.right ELSE win.left
        pattern == IF "pattern" \in p.keys THEN p.pattern ELSE <<"*">>
    IN  IF IsMultiFile(pattern)
        THEN Resolved(ExecResult(fs, Err("InvalidCommand", <<>>), FALSE, <<>>),
                      from_path, to_path, <<>>)
        ELSE LET r == copy_loop(fs, from_path, to_path, pattern,
                                listing[from_path], locked, <<>>)
             IN  IF r.err = NoErr /\ Len(r.applied) = 0
                 THEN Resolved(ExecResult(r.fs, Err("NoMatch", pattern), TRUE, <<>>),
                               from_path, to_path, listing[from_path])
                 ELSE Resolved(r, from_path, to_path, listing[from_path])

RECURSIVE move_loop(_, _, _, _, _, _, _)
move_loop(fs, from, to, pattern, items, locked, applied) ==
    IF items = <<>> THEN ExecResult(fs, NoErr, TRUE, applied)
    ELSE LET item == Head(items)
         IN  IF fnmatch(item, pattern)
             THEN LET r == MoveItem(fs, from, to, item, locked)
                  IN  IF r.ok
                      THEN move_loop(r.fs, from, to, pattern, Tail(items), locked,
                                     Append(applied, item))
                      ELSE ExecResult(r.fs, Err("ItemFailure", item), TRUE, applied)
             ELSE move_loop(fs, from, to, pattern, Tail(items), locked, applied)

\* AIDialog.do_move(p)
do_move(p, fs, win, listing, locked) ==
    LET from_path == IF "from" \in p.keys /\ p.from = "left" THEN win.left ELSE win.right
        to_path == IF "to" \in p.keys /\ p.to = "right" THEN win.right ELSE win.left
        pattern == IF "pattern" \in p.keys THEN p.pattern ELSE <<"*">>
    IN  IF IsMultiFile(pattern)
        THEN Resolved(ExecResult(fs, Err("InvalidCommand", <<>>), FALSE, <<>>),
                      from_path, to_path, <<>>)
        ELSE LET r == move_loop(fs, from_path, to_path, pattern,
                                listing[from_path], locked, <<>>)
             IN  IF r.err = NoErr /\ Len(r.applied) = 0
                 THEN Resolved(ExecResult(r.fs, Err("NoMatch", pattern), TRUE, <<>>),
                               from_path, to_path, listing[from_path])
                 ELSE Resolved(r, from_path, to_path, listing[from_path])

\* a loop that goes on with the remaining items after an item failed and
\* reports the first failure at the end
RECURSIVE delete_loop_continue(_, _, _, _, _, _)
delete_loop_continue(fs, dir, pattern, items, locked, applied) ==
    IF items = <<>> THEN ExecResult(fs, NoErr, TRUE, applied)
    ELSE LET item == Head(items)
         IN  IF fnmatch(item, pattern)
             THEN LET r == DeleteItem(fs, dir, item, locked)
                  IN  IF r.ok
                      THEN delete_loop_continue(r.fs, dir, pattern, Tail(items), locked,
                                                Append(applied, item))
                      ELSE ExecResult(
                               delete_loop_continue(r.fs, dir, pattern, Tail(items),
                                                    locked, applied).fs,
                               Err("ItemFailure", item), TRUE, applied)
             ELSE delete_loop_continue(fs, dir, pattern, Tail(items), locked, applied)

RECURSIVE delete_loop(_, _, _, _, _, _)
delete_loop(fs, dir, pattern, items, locked, applied) ==
    IF items = <<>> THEN ExecResult(fs, NoErr, TRUE, applied)
    ELSE LET item == Head(items)
         IN  IF fnmatch(item, pattern)
             THEN LET r == DeleteItem(fs, dir, item, locked)
                  IN  IF r.ok
                      THEN delete_loop(r.fs, dir, pattern, Tail(items), locked,
                                       Append(applied, item))
                      ELSE ExecResult(r.fs, Err("ItemFailure", item), TRUE, applied)
             ELSE delete_loop(fs, dir, pattern, Tail(items), locked, applied)

\* a delete that selects from a listing taken before the entry c.l of the
\* directory was created
do_delete_staleListing(p, fs, win, listing, locked) ==
    LET path == IF "from" \in p.keys /\ p.from = "left" THEN win.left ELSE win.right
        pattern == IF "pattern" \in p.keys THEN p.pattern ELSE <<"*">>
        stale == SelectSeq(listing[path], LAMBDA n : n # <<"c", ".", "l">>)
        r == delete_loop(fs, path, pattern, stale, locked, <<>>)
    IN  IF r.err = NoErr /\ Len(r.applied) = 0
        THEN Resolved(ExecResult(r.fs, Err("NoMatch", pattern), TRUE, <<>>), path, "", stale)
        ELSE Resolved(r, path, "", stale)

\* AIDialog.do_delete(p)
do_delete(p, fs, win, listing, locked) ==
    LET path == IF "from" \in p.keys /\ p.from = "left" THEN win.left ELSE win.right
        pattern == IF "pattern" \in p.keys THEN p.pattern ELSE <<"*">>
    IN  IF IsMultiFile(pattern)
        THEN Resolved(ExecResult(fs, Err("InvalidCommand", <<>>), FALSE, <<>>), path, "", <<>>)
        ELSE LET r == delete_loop(fs, path, pattern, listing[path], locked, <<>>)
             IN  IF r.err = NoErr /\ Len(r.applied) = 0
                 THEN Resolved(ExecResult(r.fs, Err("NoMatch", pattern), TRUE, <<>>),
                               path, "", listing[path])
                 ELSE Resolved(r, path, "", listing[path])

\* AIDialog.do_create_folder(p): os.makedirs(path, exist_ok=True)
do_create_folder(p, fs, win) ==
    LET path == PanelPath(win, win.active)
        name == IF "name" \in p.keys THEN p.name ELSE DefaultFolderName
    IN  Resolved(
            IF fs[path][name].kind = "dir" THEN ExecResult(fs, NoErr, FALSE, <<>>)
            ELSE IF fs[path][name].kind = "file"
                THEN ExecResult(fs, Err("AlreadyExists", name), FALSE, <<>>)
            ELSE ExecResult([fs EXCEPT ![path][name] = Dir({})], NoErr, FALSE, <<name>>),
            path, "", <<>>)

\* AIDialog.do_create_file(p): open(path, 'w') and write
do_create_file(p, fs, win) ==
    LET path == PanelPath(win, win.active)
        name == IF "name" \in p.keys THEN p.name ELSE DefaultFileName
        content == IF "content" \in p.keys THEN p.content ELSE ""
    IN  Resolved(
            IF fs[path][name].kind = "dir"
            THEN ExecResult(fs, Err("IsADirectory", name), FALSE, <<>>)
            ELSE ExecResult([fs EXCEPT ![path][name] = File(content)], NoErr, FALSE, <<name>>),
            path, "", <<>>)

\* Python's (a or b) on strings: the first operand unless it is empty
OrElse(a, b) == IF a # <<>> THEN a ELSE b

\* a do_rename without the test for an existing new name: os.rename replaces it
do_rename_overwrite(p, fs, win, locked) ==
    LET path == PanelPath(win, win.active)
        old_name == OrElse(IF "old_name" \in p.keys THEN p.old_name ELSE <<>>,
                           IF "old" \in p.keys THEN p.old ELSE <<>>)
        new_name == OrElse(IF "new_name" \in p.keys THEN p.new_name ELSE <<>>,
                           IF "new" \in p.keys THEN p.new ELSE <<>>)
    IN  Resolved(
            IF old_name = <<>> \/ new_name = <<>>
            THEN ExecResult(fs, Err("ValueError", <<>>), FALSE, <<>>)
            ELSE IF ~exists(fs, path, old_name)
                THEN ExecResult(fs, Err("NotFound", old_name), FALSE, <<>>)
            ELSE IF old_name \in locked
                THEN ExecResult(fs, Err("OSError", old_name), FALSE, <<>>)
            ELSE IF old_name = new_name
                THEN ExecResult(fs, NoErr, FALSE, <<old_name>>)
            ELSE ExecResult([fs EXCEPT ![path][new_name] = fs[path][old_name],
                                       ![path][old_name] = NoEntry],
                            NoErr, FALSE, <<old_name>>),
            path, "", <<>>)

\* AIDialog.do_rename(p); a locked name makes os.rename raise
do_rename(p, fs, win, locked) ==
    LET path == PanelPath(win, win.active)
        old_name == OrElse(IF "old_name" \in p.keys THEN p.old_name ELSE <<>>,
                           IF "old" \in p.keys THEN p.old ELSE <<>>)
        new_name == OrElse(IF "new_name" \in p.keys THEN p.new_name ELSE <<>>,
                           IF "new" \in p.keys THEN p.new ELSE <<>>)
    IN  Resolved(
            IF old_name = <<>> \/ new_name = <<>>
            THEN ExecResult(fs, Err("ValueError", <<>>), FALSE, <<>>)
            ELSE IF ~exists(fs, path, old_name)
                THEN ExecResult(fs, Err("NotFound", old_name), FALSE, <<>>)
            ELSE IF exists(fs, path, new_name)
                THEN ExecResult(fs, Err("AlreadyExists", new_name), FALSE, <<>>)
            ELSE IF old_name \in locked
                THEN ExecResult(fs, Err("OSError", old_name), FALSE, <<>>)
            ELSE ExecResult([fs EXCEPT ![path][new_name] = fs[path][old_name],
                                       ![path][old_name] = NoEntry],
                            NoErr, FALSE, <<old_name>>),
            path, "", <<>>)

\* the actions execute() dispatches on
KnownActions == {"copy", "move", "delete", "create_folder", "create_file", "rename"}

\* The dispatch of AIDialog.execute(cmd): the do_* method of the action, or
\* nothing at all when the action is none of the six.  called tells whether
\* a do_* method ran.
Dispatch(cmd, fs, win, listing, locked) ==
    LET action == cmd.action
        params == IF "params" \in cmd.keys THEN cmd.params ELSE EmptyParams
        r == CASE action = "copy" -> do_copy(params, fs, win, listing, locked)
               [] action = "move" -> do_move(params, fs, win, listing, locked)
               [] action = "delete" -> do_delete(params, fs, win, listing, locked)
               [] action = "create_folder" -> do_create_folder(params, fs, win)
               [] action = "create_file" -> do_create_file(params, fs, win)
               [] action = "rename" -> do_rename(params, fs, win, locked)
               [] OTHER -> ExecResult(fs, NoErr, FALSE, <<>>)
    IN  IF action \in KnownActions /\ params = NullParams
        \* p.get on None: AttributeError, raised by the first line of every do_*
        THEN [called |-> TRUE, res |-> ExecResult(fs, Err("AttributeError", <<>>), FALSE, <<>>)]
        ELSE [called |-> action \in KnownActions, res |-> r]

----------------------------------------------------------------------------
(* ChatDatabase: the rows of table chat_history in id order.  The          *)
(* timestamp column is not modelled (nothing reads it).                    *)

NullErr == Err("<None>", <<>>)

Row(id, user_message) ==
    [id |-> id, user_message |-> user_message, ai_response |-> Null, action |-> Null,
     params |-> NullParams, status |-> "pending", error_message |-> NullErr]

\* an insert that returns the id of the oldest row of the table
add_message_firstId(rows, lastId, user_message) ==
    [rows |-> Append(rows, Row(lastId + 1, user_message)),
     message_id |-> IF rows = <<>> THEN lastId + 1 ELSE rows[1].id]

\* an insert into a table that keeps its newest row only
add_message_evictsOlder(rows, lastId, user_message) ==
    [rows |-> <<Row(lastId + 1, user_message)>>, message_id |-> lastId + 1]

\* ChatDatabase.add_message(user_message): INSERT with the other columns at
\* their defaults; the new id is one more than the largest id ever given
\* (AUTOINCREMENT).  Returns the rows and cursor.lastrowid.
add_message(rows, lastId, user_message) ==
    [rows |-> Append(rows, Row(lastId + 1, user_message)), message_id |-> lastId + 1]

\* a clear that also forgets the ids given out (a table without AUTOINCREMENT)
clear_history_resetsSequence(rows, lastId) == [rows |-> <<>>, lastId |-> 0]

\* ChatDatabase.clear_history(): DELETE FROM chat_history removes every row;
\* the table is AUTOINCREMENT, so the largest id given out stays recorded
clear_history(rows, lastId) == [rows |-> <<>>, lastId |-> lastId]

\* update_message without its WHERE clause: every row is updated
update_message_everyRow(rows, message_id, ai_response, action, params, status, error_message) ==
    [i \in 1..Len(rows) |->
        [rows[i] EXCEPT
            !.ai_response = IF ai_response # Null THEN ai_response ELSE @,
            !.action = IF action # Null THEN action ELSE @,
            !.params = IF params # NullParams THEN params ELSE @,
            !.status = IF status # Null THEN status ELSE @,
            !.error_message = IF error_message # NullErr THEN error_message ELSE @]]

\* an update that sets every column, the ones without an argument to NULL
update_message_setsAll(rows, message_id, ai_response, action, params, status, error_message) ==
    [i \in 1..Len(rows) |->
        IF rows[i].id # message_id THEN rows[i]
        ELSE [rows[i] EXCEPT !.ai_response = ai_response, !.action = action,
                             !.params = params, !.status = status,
                             !.error_message = error_message]]

\* ChatDatabase.update_message: SET only the columns whose argument is not None
update_message(rows, message_id, ai_response, action, params, status, error_message) ==
    [i \in 1..Len(rows) |->
        IF rows[i].id # message_id THEN rows[i]
        ELSE [rows[i] EXCEPT
                !.ai_response = IF ai_response # Null THEN ai_response ELSE @,
                !.action = IF action # Null THEN action ELSE @,
                !.params = IF params # NullParams THEN params ELSE @,
                !.status = IF status # Null THEN status ELSE @,
                !.error_message = IF error_message # NullErr THEN error_message ELSE @]]

\* the test of self.current_message_id that guards every update of the dialog
update_if_id(rows, message_id, ai_response, action, params, status, error_message) ==
    IF message_id # 0
    THEN update_message(rows, message_id, ai_response, action, params, status, error_message)
    ELSE rows

\* ORDER BY id DESC: the i-th row is the one with i-1 rows of a greater id
OrderByIdDesc(rows) ==
    LET R == {rows[i] : i \in 1..Len(rows)}
    IN  [i \in 1..Len(rows) |->
            CHOOSE r \in R : Cardinality({q \in R : q.id > r.id}) = i - 1]

\* LIMIT count: the first count rows; a negative count is no limit (SQLite)
Limit(s, count) ==
    IF count < 0 \/ count >= Len(s) THEN s ELSE SubSeq(s, 1, count)

\* list(reversed(history))
Reversed(s) == [i \in 1..Len(s) |-> s[Len(s) + 1 - i]]

\* get_recent_history that leaves out the final reversal
get_recent_history_newestFirst(rows, count) == Limit(OrderByIdDesc(rows), count)

\* ChatDatabase.get_recent_history(count): the dict built from a row has the
\* row's columns (the params column decoded back from its JSON text)
get_recent_history(rows, count) == Reversed(Limit(OrderByIdDesc(rows), count))

----------------------------------------------------------------------------
(* The interpreter's answer: a text, modelled as its sequence of tokens.   *)
(* A token is a code fence, the word json, white space, a JSON object, a   *)
(* JSON value that is no object, or text that is no JSON.                  *)

NoCmd == Cmd({}, "", EmptyParams, "")

Tok(t) == [t |-> t, v |-> NoCmd]

Obj(cmd) == [t |-> "object", v |-> cmd]

\* str.strip(): white space off both ends
RECURSIVE lstrip(_)
lstrip(s) == IF s # <<>> /\ Head(s).t = "ws" THEN lstrip(Tail(s)) ELSE s

RECURSIVE rstrip(_)
rstrip(s) ==
    IF s # <<>> /\ s[Len(s)].t = "ws" THEN rstrip(SubSeq(s, 1, Len(s) - 1)) ELSE s

strip(s) == rstrip(lstrip(s))

\* the part of s before its first code fence
RECURSIVE UpToFence(_)
UpToFence(s) ==
    IF s = <<>> \/ Head(s).t = "fence" THEN <<>>
    ELSE <<Head(s)>> \o UpToFence(Tail(s))

\* answer.split(fence)[1] for an answer that starts with a fence
SplitFence1(s) == UpToFence(Tail(s))

\* lines 1909-1914 of on_response: strip, drop the fence and the word json
Unfence(answer) ==
    LET a1 == strip(answer)
        a2 == IF a1 # <<>> /\ Head(a1).t = "fence"
              THEN LET inner == SplitFence1(a1)
                   IN  IF inner # <<>> /\ Head(inner).t = "json" THEN Tail(inner) ELSE inner
              ELSE a1
    IN  strip(a2)

\* json.loads: succeeds on exactly one JSON value
JsonOk(tokens) == Len(tokens) = 1 /\ tokens[1].t \in {"object", "array"}

NoRes(fs) == ExecResult(fs, NoErr, FALSE, <<>>)

\* what on_response and execute produce
Outcome(rows, fs, state, reason, called, res, refreshed) ==
    [rows |-> rows, fs |-> fs, state |-> state, reason |-> reason, called |-> called,
     res |-> res, refreshed |-> refreshed]

\* execute whose exception handler shows the error and does not record it
execute_unrecordedError(cmd, message_id, rows, fs, win, listing, locked) ==
    LET d == Dispatch(cmd, fs, win, listing, locked)
    IN  IF d.res.err = NoErr
        THEN Outcome(update_if_id(rows, message_id, Null, Null, NullParams, "success", NullErr),
                     d.res.fs, "Succeeded", "none", d.called, d.res, TRUE)
        ELSE Outcome(rows, d.res.fs, "Failed", "executor", d.called, d.res, FALSE)

\* AIDialog.execute(cmd)
execute(cmd, message_id, rows, fs, win, listing, locked) ==
    LET d == Dispatch(cmd, fs, win, listing, locked)
    IN  IF d.res.err = NoErr
        THEN \* refresh_panels(), then the entry becomes success
             Outcome(update_if_id(rows, message_id, Null, Null, NullParams, "success", NullErr),
                     d.res.fs, "Succeeded", "none", d.called, d.res, TRUE)
        ELSE Outcome(update_if_id(rows, message_id, Null, Null, NullParams, "error", d.res.err),
                     d.res.fs, "Failed", "executor", d.called, d.res, FALSE)

\* run_command without the test for the error action
run_command_noErrorTest(cmd, message_id, rows, fs, win, listing, locked) ==
    execute(cmd, message_id, rows, fs, win, listing, locked)

\* lines 1928-1934 of on_response: the error action ends the command with
\* status error, any other action is executed
run_command(cmd, message_id, rows, fs, win, listing, locked) ==
    IF cmd.action = "error"
    THEN Outcome(update_if_id(rows, message_id, Null, Null, NullParams, "error", NullErr),
                 fs, "Failed", "error_action", FALSE, NoRes(fs), FALSE)
    ELSE execute(cmd, message_id, rows, fs, win, listing, locked)

\* AIDialog.on_response(answer, success), after the input is enabled again
on_response(answer, success, message_id, rows, fs, win, listing, locked) ==
    IF ~success
    THEN Outcome(update_if_id(rows, message_id, Null, Null, NullParams, "error",
                              Err("InterpreterFailure", <<>>)),
                 fs, "Failed", "endpoint", FALSE, NoRes(fs), FALSE)
    ELSE LET tokens == Unfence(answer)
         IN  IF ~JsonOk(tokens) \/ tokens[1].t # "object"
             \* json.loads raises, or cmd.get raises on a value that is no dict
             THEN Outcome(update_if_id(rows, message_id, Null, Null, NullParams, "error",
                                       Err("ParseError", <<>>)),
                          fs, "Failed", "parse", FALSE, NoRes(fs), FALSE)
             ELSE LET cmd == tokens[1].v
                      ai_message == IF "message" \in cmd.keys THEN cmd.message ELSE ""
                      rows1 == update_if_id(rows, message_id, ai_message,
                                            IF "action" \in cmd.keys THEN cmd.action ELSE Null,
                                            IF "params" \in cmd.keys THEN cmd.params
                                            ELSE NullParams,
                                            Null, NullErr)
                  IN  IF "action" \notin cmd.keys
                      \* cmd['action'] raises KeyError
                      THEN Outcome(update_if_id(rows1, message_id, Null, Null, NullParams,
                                                "error", Err("KeyError", <<>>)),
                                   fs, "Failed", "parse", FALSE, NoRes(fs), FALSE)
                      ELSE run_command(cmd, message_id, rows1, fs, win, listing, locked)

----------------------------------------------------------------------------
(* What the environment can supply: the interpreter's answers, the texts   *)
(* the user types, the initial file systems.                               *)

PatAllT == <<"*", ".", "t">>

PatAll == <<"*">>

PatOneL == <<"?", ".", "l">>

PatClass == <<"[", "a", "b", "]", ".", "t">>

PatNone == <<"z">>

PatComma == <<"a", ".", "t", ",", "b", ".", "t">>

PatAnd == <<"a", ".", "t", " ", "A", "N", "D", " ", "b", ".", "t">>

PatCyr == <<"a", ".", "t", " ", CyrI, " ", "b", ".", "t">>

Batch(action, pattern, from, to) ==
    Cmd({"action", "params", "message"}, action,
        Params({"pattern", "from", "to"}, pattern, from, to, <<>>, "", <<>>, <<>>), "m")

DeleteCmd(pattern, from) ==
    Cmd({"action", "params", "message"}, "delete",
        Params({"pattern", "from"}, pattern, from, "", <<>>, "", <<>>, <<>>), "m")

CreateFolderCmd(name) ==
    Cmd({"action", "params", "message"}, "create_folder",
        Params({"name"}, <<>>, "", "", name, "", <<>>, <<>>), "m")

CreateFileCmd(name, content) ==
    Cmd({"action", "params", "message"}, "create_file",
        Params({"name", "content"}, <<>>, "", "", name, content, <<>>, <<>>), "m")

RenameCmd(old, new) ==
    Cmd({"action", "params", "message"}, "rename",
        Params({"old_name", "new_name"}, <<>>, "", "", <<>>, "", old, new), "m")

BatchCommands ==
    {Batch("copy", PatAllT, "left", "right"),
     Batch("copy", PatNone, "left", "right"),
     Batch("copy", PatComma, "left", "right"),
     Batch("copy", PatClass, "right", "left"),
     Batch("move", PatAllT, "left", "right"),
     Batch("move", PatAnd, "left", "right"),
     Batch("move", PatAll, "right", "left"),
     DeleteCmd(PatOneL, "left"),
     DeleteCmd(PatAll, "right"),
     DeleteCmd(PatCyr, "left")}

OtherCommands ==
    {CreateFolderCmd(NameC),
     CreateFileCmd(NameB, "y"),
     RenameCmd(NameA, NameC),
     RenameCmd(NameA, NameB),
     Cmd({"action", "message"}, "rename", EmptyParams, "m"),
     Cmd({"action", "params"}, "copy", NullParams, ""),
     Cmd({"action", "message"}, "error", EmptyParams, "m"),
     Cmd({"action", "params", "message"}, "teleport", EmptyParams, "m"),
     Cmd({"message"}, "", EmptyParams, "m")}

Commands == BatchCommands \cup OtherCommands

\* the answers of the endpoint: a bare JSON object, or one of a few wrappings
Answers ==
    {<<Obj(c)>> : c \in Commands}
    \cup {<<Tok("fence"), Tok("json"), Tok("ws"), Obj(CreateFolderCmd(NameC)), Tok("ws"),
           Tok("fence")>>,
          <<Tok("ws"), Tok("fence"), Tok("ws"), Obj(DeleteCmd(PatOneL, "left")), Tok("fence"),
            Tok("ws")>>,
          <<Tok("text"), Obj(DeleteCmd(PatAll, "right"))>>,
          <<Tok("array")>>,
          <<Tok("text")>>}

\* what the worker's exception is turned into: str(e)
ErrorText == <<Tok("text")>>

Emit(a) == [answer |-> a, success |-> TRUE]

\* the results a worker can emit
Emissions ==
    {Emit(a) : a \in Answers} \cup {[answer |-> ErrorText, success |-> FALSE]}

\* whether executing the answer reads a directory listing or renames
UsesEnvironment(e) ==
    /\ e.success
    /\ \E i \in 1..Len(e.answer) :
          /\ e.answer[i].t = "object"
          /\ e.answer[i].v.action \in {"copy", "move", "delete", "rename"}

\* the texts a user types into the input line
Texts == {<<"g", "o">>, <<" ">>}

\* text.strip() of the input line
RECURSIVE StripText(_)
StripText(t) ==
    IF t # <<>> /\ Head(t) = " " THEN StripText(Tail(t))
    ELSE IF t # <<>> /\ t[Len(t)] = " " THEN StripText(SubSeq(t, 1, Len(t) - 1))
    ELSE t

EmptyDir == [n \in Names |-> NoEntry]

InitFilesystems ==
    {[A |-> [EmptyDir EXCEPT ![NameA] = File("x"), ![NameB] = File("x"), ![NameC] = File("x")],
      B |-> EmptyDir],
     [A |-> [EmptyDir EXCEPT ![NameA] = File("x"), ![NameB] = Dir({NameA}), ![NameC] = File("x")],
      B |-> [EmptyDir EXCEPT ![NameA] = File("y"), ![NameB] = File("y")]],
     [A |-> [EmptyDir EXCEPT ![NameC] = Dir({})],
      B |-> [EmptyDir EXCEPT ![NameA] = Dir({NameA}), ![NameB] = File("y")]]}

----------------------------------------------------------------------------
(* FilePanel: the listing a panel shows and the cache its search filters.  *)
(* A panel can show the directories of Dirs and their parent, the root of  *)
(* the file system, whose entries are those directories.                   *)

Root == "/"

PanelPaths == Dirs \cup {Root}

\* os.path.dirname of "/" and of a directory below it
dirname(path) == Root

\* the names of the entries of the root
RootNames == {<<"A">>, <<"B">>}

\* the entry a path and a name lead to
entryAt(fs, path, n) ==
    IF path = Root THEN (IF n \in RootNames THEN Dir({}) ELSE NoEntry)
    ELSE IF n \in Names THEN fs[path][n] ELSE NoEntry

\* the code points of the characters that occur in names
CharCode(c) ==
    CASE c = "." -> 46
      [] c = "A" -> 65
      [] c = "B" -> 66
      [] c = "a" -> 97
      [] c = "b" -> 98
      [] c = "c" -> 99
      [] c = "l" -> 108
      [] c = "t" -> 116
      [] OTHER -> 0

\* Python's s < t on strings
RECURSIVE LessText(_, _)
LessText(s, t) ==
    IF t = <<>> THEN FALSE
    ELSE IF s = <<>> THEN TRUE
    ELSE IF Head(s) = Head(t) THEN LessText(Tail(s), Tail(t))
    ELSE CharCode(Head(s)) < CharCode(Head(t))

\* sorted(entries, key=..., reverse=...): a stable sort; x goes in front of
\* the first element that is strictly after it, so equal keys keep their order
RECURSIVE InsertByKey(_, _, _, _)
InsertByKey(acc, x, key, reverse) ==
    IF acc = <<>> THEN <<x>>
    ELSE IF (IF reverse THEN key[x] > key[Head(acc)] ELSE key[x] < key[Head(acc)])
        THEN <<x>> \o acc
    ELSE <<Head(acc)>> \o InsertByKey(Tail(acc), x, key, reverse)

RECURSIVE SortByKey(_, _, _)
SortByKey(seq, key, reverse) ==
    IF seq = <<>> THEN <<>>
    ELSE InsertByKey(SortByKey(SubSeq(seq, 1, Len(seq) - 1), key, reverse),
                     seq[Len(seq)], key, reverse)

\* key=str.lower as a number: how many of the entries have a smaller lower-cased name
LowerKey(entries) ==
    LET S == {entries[i] : i \in 1..Len(entries)}
    IN  [n \in S |-> Cardinality({m \in S : LessText(Lower(m), Lower(n))})]

\* os.path.getsize of a file, by its content
FileSize(content) ==
    CASE content = "x" -> 1
      [] content = "y" -> 1536
      [] OTHER -> 0

SortModes == <<"name_asc", "name_desc", "size_asc", "size_desc", "date_asc", "date_desc">>

\* a sort whose key for a file that cannot be read is larger than every size
\* and every modification time
sort_entries_unreadableLargest(entries, is_dir, sort_mode, fs, path, stat) ==
    LET S == {entries[i] : i \in 1..Len(entries)}
        get_size == [n \in S |-> IF n \in stat.unreadable THEN 2048
                                 ELSE FileSize(entryAt(fs, path, n).content)]
        get_mtime == [n \in S |-> IF n \in stat.unreadable THEN 2048 ELSE stat.mtime[n]]
    IN  CASE sort_mode = "name_asc" -> SortByKey(entries, LowerKey(entries), FALSE)
          [] sort_mode = "name_desc" -> SortByKey(entries, LowerKey(entries), TRUE)
          [] sort_mode \in {"size_asc", "size_desc"} ->
                IF is_dir THEN SortByKey(entries, LowerKey(entries), FALSE)
                ELSE SortByKey(entries, get_size, sort_mode = "size_desc")
          [] sort_mode \in {"date_asc", "date_desc"} ->
                SortByKey(entries, get_mtime, sort_mode = "date_desc")
          [] OTHER -> entries

\* FilePanel.sort_entries.  stat is what the operating system answers during
\* the load: the modification times, and the names whose stat raises.
sort_entries(entries, is_dir, sort_mode, fs, path, stat) ==
    LET S == {entries[i] : i \in 1..Len(entries)}
        get_size == [n \in S |-> IF n \in stat.unreadable THEN 0
                                 ELSE FileSize(entryAt(fs, path, n).content)]
        get_mtime == [n \in S |-> IF n \in stat.unreadable THEN 0 ELSE stat.mtime[n]]
    IN  CASE sort_mode = "name_asc" -> SortByKey(entries, LowerKey(entries), FALSE)
          [] sort_mode = "name_desc" -> SortByKey(entries, LowerKey(entries), TRUE)
          [] sort_mode \in {"size_asc", "size_desc"} ->
                IF is_dir THEN SortByKey(entries, LowerKey(entries), FALSE)
                ELSE SortByKey(entries, get_size, sort_mode = "size_desc")
          [] sort_mode \in {"date_asc", "date_desc"} ->
                SortByKey(entries, get_mtime, sort_mode = "date_desc")
          [] OTHER -> entries

DigitChar(d) == <<"0", "1", "2", "3", "4", "5", "6", "7", "8", "9">>[d + 1]

RECURSIVE Digits(_)
Digits(n) == IF n < 10 THEN <<DigitChar(n)>> ELSE Digits(n \div 10) \o <<DigitChar(n % 10)>>

\* f'{size:.1f}' for size = num/den, rounded to the nearest tenth (the sizes
\* of the model are not halfway between two tenths)
Fixed1(num, den) ==
    LET tenths == (20 * num + den) \div (2 * den)
    IN  Digits(tenths \div 10) \o <<".", DigitChar(tenths % 10)>>

\* the units of format_size: B, KB, MB, GB in Cyrillic letters, then TB
SizeUnits ==
    <<<<"u0411">>, <<"u041a", "u0411">>, <<"u041c", "u0411">>, <<"u0413", "u0411">>>>

LastSizeUnit == <<"u0422", "u0411">>

RECURSIVE format_units(_, _, _)
format_units(num, den, i) ==
    IF i > Len(SizeUnits) THEN Fixed1(num, den) \o <<" ">> \o LastSizeUnit
    ELSE IF num < 1024 * den THEN Fixed1(num, den) \o <<" ">> \o SizeUnits[i]
    ELSE format_units(num, den * 1024, i + 1)

\* FilePanel.format_size
format_size(size) == format_units(size, 1, 1)

\* A QListWidgetItem: its icon, its text and the full path in its UserRole
ListItem(icon, text, dir, name) ==
    [icon |-> icon, text |-> text, path |-> [dir |-> dir, name |-> name]]

\* the item ".." of a directory that is not the root; its data is the parent
ParentItem(path) == ListItem("folder", <<".", ".">>, dirname(path), <<>>)

\* os.path.basename of the full path of an item
basename(item) == item.path.name

\* A panel: sort_mode, the cache all_items, the visible file_list and the
\* text of search_input; listed counts the os.listdir calls of the last
\* operation on the panel, complete tells whether the last load_directory
\* ran to its end
Panel(sort_mode, all_items, file_list, search, listed, complete) ==
    [sort_mode |-> sort_mode, all_items |-> all_items, file_list |-> file_list,
     search |-> search, listed |-> listed, complete |-> complete]

\* What the operating system answers during one load: the order of
\* os.listdir, whether it raises PermissionError, the names whose stat
\* raises and the modification times
LoadEnv(order, rootOrder, denied, unreadable, mtime) ==
    [order |-> order, rootOrder |-> rootOrder, denied |-> denied,
     unreadable |-> unreadable, mtime |-> mtime]

\* the item of a file: name and size, or the name alone when getsize raises
FileItem(fs, path, n, stat) ==
    ListItem("file",
             IF n \in stat.unreadable THEN n
             ELSE n \o <<" ", "(">> \o format_size(FileSize(entryAt(fs, path, n).content))
                    \o <<")">>,
             path, n)

\* a load that adds the files in front of the directories
load_directory_filesFirst(p, fs, path, env) ==
    LET parent == IF dirname(path) # path THEN <<ParentItem(path)>> ELSE <<>>
        entries == IF path = Root THEN env.rootOrder
                   ELSE SelectSeq(env.order, LAMBDA n : entryAt(fs, path, n).kind # "none")
        dirs == sort_entries(SelectSeq(entries, LAMBDA n : entryAt(fs, path, n).kind = "dir"),
                             TRUE, p.sort_mode, fs, path, env)
        files == sort_entries(SelectSeq(entries, LAMBDA n : entryAt(fs, path, n).kind # "dir"),
                              FALSE, p.sort_mode, fs, path, env)
        items == parent
                 \o [i \in 1..Len(files) |-> FileItem(fs, path, files[i], env)]
                 \o [i \in 1..Len(dirs) |-> ListItem("folder", dirs[i], path, dirs[i])]
    IN  IF env.denied THEN Panel(p.sort_mode, parent, parent, <<>>, 1, FALSE)
        ELSE Panel(p.sort_mode, items, items, <<>>, 1, TRUE)

\* FilePanel.load_directory(path): the list, the cache and the search text
\* are cleared, the parent item is added unless the path is the root, the
\* directory is listed once, and directories then files are added in the
\* order of sort_entries.  When os.listdir raises the method returns there.
load_directory(p, fs, path, env) ==
    LET parent == IF dirname(path) # path THEN <<ParentItem(path)>> ELSE <<>>
        entries == IF path = Root THEN env.rootOrder
                   ELSE SelectSeq(env.order, LAMBDA n : entryAt(fs, path, n).kind # "none")
        dirs == sort_entries(SelectSeq(entries, LAMBDA n : entryAt(fs, path, n).kind = "dir"),
                             TRUE, p.sort_mode, fs, path, env)
        files == sort_entries(SelectSeq(entries, LAMBDA n : entryAt(fs, path, n).kind # "dir"),
                              FALSE, p.sort_mode, fs, path, env)
        items == parent
                 \o [i \in 1..Len(dirs) |-> ListItem("folder", dirs[i], path, dirs[i])]
                 \o [i \in 1..Len(files) |-> FileItem(fs, path, files[i], env)]
    IN  IF env.denied THEN Panel(p.sort_mode, parent, parent, <<>>, 1, FALSE)
        ELSE Panel(p.sort_mode, items, items, <<>>, 1, TRUE)

\* the test of filter_files on one item: the search text is a substring of
\* the lower-cased item text or of the lower-cased base name
ItemSelected(item, search_text) ==
    \/ Contains(Lower(item.text), search_text)
    \/ Contains(Lower(basename(item)), search_text)

\* a filter that keeps the selected items as the new cache
filter_files_prunesCache(p, text) ==
    LET search_text == Lower(text)
        shown == IF search_text = <<>> THEN p.all_items
                 ELSE SelectSeq(p.all_items, LAMBDA item : ItemSelected(item, search_text))
    IN  Panel(p.sort_mode, shown, shown, text, 0, p.complete)

\* FilePanel.filter_files, run when the text of search_input changes
filter_files(p, text) ==
    LET search_text == Lower(text)
    IN  Panel(p.sort_mode, p.all_items,
              IF search_text = <<>> THEN p.all_items
              ELSE SelectSeq(p.all_items, LAMBDA item : ItemSelected(item, search_text)),
              text, 0, p.complete)

\* the two panels of the window
Sides == {"left", "right"}

\* the order the model fixes when the command reads no listing
CanonPerm == <<NameA, NameB, NameC>>

\* an operating system that lists in the order of CanonPerm and refuses nothing
QuietEnv ==
    LoadEnv(CanonPerm, <<<<"A">>, <<"B">>>>, FALSE, {},
            [n \in Names \cup RootNames |-> 1])

\* no submit of the dialog is in flight
NoSubmit == 0

\* One message of the request: the system prompt names the panels' paths
\* and the active panel, a user turn carries the text, an assistant turn
\* the stored answer
Turn(role, text, answer, paths) ==
    [role |-> role, text |-> text, answer |-> answer, paths |-> paths]

NoPaths == [left |-> "", right |-> "", active |-> ""]

SystemTurn(w) ==
    Turn("system", <<>>, "", [left |-> w.left, right |-> w.right, active |-> w.active])

UserTurn(text) == Turn("user", text, "", NoPaths)

AssistantTurn(answer) == Turn("assistant", <<>>, answer, NoPaths)

\* the turns of one history entry: the user message, and the answer when
\* the entry has one
RECURSIVE history_turns(_)
history_turns(history) ==
    IF history = <<>> THEN <<>>
    ELSE LET entry == Head(history)
         IN  <<UserTurn(entry.user_message)>>
             \o (IF entry.ai_response \notin {Null, ""}
                 THEN <<AssistantTurn(entry.ai_response)>> ELSE <<>>)
             \o history_turns(Tail(history))

\* the list messages of AIDialog.send, built after add_message stored the text
build_messages(rows, w, text) ==
    <<SystemTurn(w)>> \o history_turns(get_recent_history(rows, 6)) \o <<UserTurn(text)>>

\* a refresh that reloads the left panel alone
refresh_panels_leftOnly(panel, fs, w) ==
    [side \in Sides |->
        IF side = "left" THEN load_directory(panel[side], fs, PanelPath(w, side), QuietEnv)
        ELSE panel[side]]

\* DualExplorerWindow.refresh_panels: the left panel, then the right one
refresh_panels(panel, fs, w) ==
    [side \in Sides |-> load_directory(panel[side], fs, PanelPath(w, side), QuietEnv)]

----------------------------------------------------------------------------
(* The state *)

VARIABLES
    fs,       \* the file system
    win,      \* the window: the panels' current paths and the active side
    rows,     \* table chat_history, in id order
    lastId,   \* the largest id the table has given out (sqlite_sequence)
    dlg,      \* the assistant dialogs
    last,     \* what on_response did, when the step just taken was an on_response
    panel,    \* the two file panels: sort mode, cache, visible list, search text
    call      \* the call of the history store or the operation on a panel just
              \* made, when the step was one

vars == <<fs, win, rows, lastId, dlg, last, panel, call>>

Dialogs == 1..MaxDialogs

\* A dialog before open_ai_assistant creates it; submit is the id of the entry
\* the submit in flight created
NoDialog ==
    [open |-> FALSE, enabled |-> TRUE, current_message_id |-> 0,
     worker |-> "none", inbox |-> <<>>, state |-> "Idle", submit |-> NoSubmit]

\* the listing the model records when no listing is read
CanonListing == [d \in Dirs |-> <<>>]

NoLast ==
    [dialog |-> 0, message_id |-> 0, emission |-> [answer |-> <<>>, success |-> FALSE],
     fsBefore |-> [d \in Dirs |-> EmptyDir],
     locked |-> {},
     state |-> "Idle", reason |-> "none", called |-> FALSE,
     res |-> NoRes([d \in Dirs |-> EmptyDir]),
     refreshed |-> FALSE, statusBefore |-> Null, submit |-> NoSubmit,
     enabled |-> FALSE]

\* the largest number of rows of the store when its queries are examined
MaxHistory == 10

\* the largest count asked of get_recent_history
MaxCount == 7

\* no call of the history store was made by the step just taken
NoCall == [op |-> "none", count |-> 0, result |-> <<>>]

\* FilePanel.__init__: sort mode name_asc, then load_directory(start_path)
NewPanel(fs0, path) == load_directory(Panel("name_asc", <<>>, <<>>, <<>>, 0, FALSE), fs0, path, QuietEnv)

\* DualExplorerWindow.__init__ / init_ui: the panels show the start paths
\* chosen in the StartupDialog, the left panel is active; no dialog exists;
\* the history table is empty.  F is the set of file systems the run may start from.
InitOn(F) ==
    /\ fs \in F
    /\ win \in {[left |-> l, right |-> r, active |-> "left"] : l \in Dirs, r \in Dirs}
    /\ rows = <<>>
    /\ lastId = 0
    /\ dlg = [d \in Dialogs |-> NoDialog]
    /\ last = NoLast
    /\ panel = [side \in Sides |-> NewPanel(fs, PanelPath(win, side))]
    /\ call = NoCall

\* DualExplorerWindow.open_ai_assistant: a new AIDialog, shown non-modally
OpenAssistant(d) ==
    /\ ~dlg[d].open
    /\ \A e \in Dialogs : e < d => dlg[e].open
    /\ dlg' = [dlg EXCEPT ![d] = [NoDialog EXCEPT !.open = TRUE]]
    /\ last' = NoLast
    /\ call' = NoCall
    /\ UNCHANGED <<fs, win, rows, lastId, panel>>

\* What self.input.text() holds when send runs: the text the user typed if
\* the input line is enabled; a disabled line cannot be edited and was
\* cleared by the send that disabled it.
InputText(d, typed) == IF dlg[d].enabled THEN typed ELSE <<>>

\* AIDialog.send, bound to the button and to Return in the input line, with
\* a text that is not blank: it stores the pending entry, clears and
\* disables the input and starts the worker thread
Send(d, typed) ==
    /\ dlg[d].open
    /\ StripText(InputText(d, typed)) # <<>>
    /\ Len(rows) < MaxEntries
    /\ LET a == add_message(rows, lastId, StripText(InputText(d, typed)))
       IN  /\ rows' = a.rows
           /\ lastId' = a.message_id
           /\ dlg' = [dlg EXCEPT ![d].current_message_id = a.message_id,
                                 ![d].enabled = FALSE,
                                 ![d].worker = "running",
                                 ![d].state = "Interpreting",
                                 \* the entry this submit appended to the store
                                 ![d].submit = a.rows[Len(a.rows)].id]
           /\ call' = [op |-> "send", count |-> 6,
                       result |-> build_messages(a.rows, win,
                                                 StripText(InputText(d, typed)))]
    /\ last' = NoLast
    /\ UNCHANGED <<fs, win, panel>>

\* AIDialog.send with a blank text (always so while the input is disabled):
\* the early return of line 1816
SendBlank(d, typed) ==
    /\ dlg[d].open
    /\ StripText(InputText(d, typed)) = <<>>
    /\ UNCHANGED vars

\* a worker that records a failure of the endpoint in the store by itself
WorkerReturn_updatesStore(d, e) ==
    /\ dlg[d].worker = "running"
    /\ dlg' = [dlg EXCEPT ![d].worker = "none", ![d].inbox = Append(@, e)]
    /\ rows' = IF e.success THEN rows
               ELSE update_if_id(rows, dlg[d].current_message_id, Null, Null, NullParams,
                                 "error", Err("InterpreterFailure", <<>>))
    /\ last' = NoLast
    /\ call' = NoCall
    /\ UNCHANGED <<fs, win, lastId, panel>>

\* a worker that ends without emitting a result
WorkerReturn_dropsResult(d, e) ==
    /\ dlg[d].worker = "running"
    /\ dlg' = [dlg EXCEPT ![d].worker = "none"]
    /\ last' = NoLast
    /\ call' = NoCall
    /\ UNCHANGED <<fs, win, rows, lastId, panel>>

\* a worker that emits its result twice
WorkerReturn_emitsTwice(d, e) ==
    /\ dlg[d].worker = "running"
    /\ dlg' = [dlg EXCEPT ![d].worker = "none", ![d].inbox = Append(Append(@, e), e)]
    /\ last' = NoLast
    /\ call' = NoCall
    /\ UNCHANGED <<fs, win, rows, lastId, panel>>

\* call_ai in the worker thread: the endpoint answers or raises, and the
\* result is emitted once to the dialog's queued signal
WorkerReturn(d, e) ==
    /\ dlg[d].worker = "running"
    /\ dlg' = [dlg EXCEPT ![d].worker = "none", ![d].inbox = Append(@, e)]
    /\ last' = NoLast
    /\ call' = NoCall
    /\ UNCHANGED <<fs, win, rows, lastId, panel>>

StatusOf(rs, id) ==
    IF \E i \in 1..Len(rs) : rs[i].id = id
    THEN (CHOOSE r \in {rs[i] : i \in 1..Len(rs)} : r.id = id).status
    ELSE Null

\* the foreground handles the queued signal: AIDialog.on_response
OnResponse(d, perm, locked) ==
    /\ dlg[d].inbox # <<>>
    /\ LET e == Head(dlg[d].inbox)
           id == dlg[d].current_message_id
           \* line 1894, the first statement: self.input.setEnabled(True)
           enabled == TRUE
       IN  /\ (UsesEnvironment(e) \/ (perm = CanonPerm /\ locked = {}))
           /\ \E listing \in {IF UsesEnvironment(e)
                              THEN [dir \in Dirs |->
                                       SelectSeq(perm, LAMBDA n : exists(fs, dir, n))]
                              ELSE CanonListing} :
              \E o \in {on_response(e.answer, e.success, id, rows, fs, win, listing, locked)} :
                 /\ rows' = o.rows
                 /\ fs' = o.fs
                 /\ dlg' = [dlg EXCEPT ![d].inbox = Tail(@), ![d].enabled = enabled,
                                       ![d].state = o.state, ![d].submit = NoSubmit]
                 /\ last' = [dialog |-> d, message_id |-> id, emission |-> e,
                             fsBefore |-> fs, locked |-> locked, state |-> o.state, reason |-> o.reason,
                             called |-> o.called, res |-> o.res, refreshed |-> o.refreshed,
                             statusBefore |-> StatusOf(rows, id),
                             submit |-> dlg[d].submit,
                             \* the input while the answer was parsed and executed
                             enabled |-> enabled]
                 /\ panel' = IF o.refreshed THEN refresh_panels(panel, o.fs, win) ELSE panel
    /\ call' = NoCall
    /\ UNCHANGED <<win, lastId>>

\* DualExplorerWindow.set_active_panel, on a click into a panel's list
SetActivePanel(side) ==
    /\ win.active # side
    /\ win' = [win EXCEPT !.active = side]
    /\ last' = NoLast
    /\ call' = NoCall
    /\ UNCHANGED <<fs, rows, lastId, dlg, panel>>

\* FilePanel.navigate_to_path / change_left_panel_path: the panel shows another directory
Navigate(side, dir) ==
    /\ PanelPath(win, side) # dir
    /\ win' = IF side = "left" THEN [win EXCEPT !.left = dir] ELSE [win EXCEPT !.right = dir]
    /\ panel' = [panel EXCEPT ![side] = load_directory(@, fs, dir, QuietEnv)]
    /\ last' = NoLast
    /\ call' = NoCall
    /\ UNCHANGED <<fs, rows, lastId, dlg>>

\* the sets of names the operating system refuses to open during one command
LockedSets == {{}} \cup {{n} : n \in Names}

\* The next-state relation when the endpoint draws its results from E, the
\* user opens the dialogs D and changes the directory of the panels S
NextWith(E, D, S) ==
    \/ \E d \in D : OpenAssistant(d)
    \/ \E d \in D, t \in Texts : Send(d, t)
    \/ \E d \in D, t \in Texts : SendBlank(d, t)
    \/ \E d \in D, e \in E : WorkerReturn(d, e)
    \/ \E d \in D, perm \in Orders(Names), locked \in LockedSets :
          OnResponse(d, perm, locked)
    \/ \E side \in Sides : SetActivePanel(side)
    \/ \E side \in S, dir \in Dirs : Navigate(side, dir)

NextOn(E, D) == NextWith(E, D, Sides)

\* the answers that exercise the pipeline: a failure of the endpoint, an
\* answer that is no JSON, the error action, an unknown action, an object
\* without action, and a fenced command that executes
PipelineEmissions ==
    {[answer |-> ErrorText, success |-> FALSE],
     Emit(<<Tok("text")>>),
     Emit(<<Obj(Cmd({"message"}, "", EmptyParams, "m"))>>),
     Emit(<<Obj(Cmd({"action", "message"}, "error", EmptyParams, "m"))>>),
     Emit(<<Obj(Cmd({"action", "params", "message"}, "teleport", EmptyParams, "m"))>>),
     Emit(<<Tok("fence"), Tok("json"), Tok("ws"), Obj(CreateFolderCmd(NameC)), Tok("ws"),
            Tok("fence")>>)}

PipelineFilesystems ==
    {[A |-> [EmptyDir EXCEPT ![NameA] = File("x"), ![NameC] = File("x")], B |-> EmptyDir]}

Init == InitOn(PipelineFilesystems) /\ win.right = "B"

Next == NextWith(PipelineEmissions, Dialogs, {"left"})

Spec == Init /\ [][Next]_vars

\* The executor under copy commands, given from one assistant dialog
CopyEmissions ==
    {Emit(<<Obj(Batch("copy", PatAllT, "left", "right"))>>),
     Emit(<<Obj(Batch("copy", PatClass, "right", "left"))>>),
     Emit(<<Obj(Batch("copy", PatNone, "left", "right"))>>)}

InitCopy == InitOn(InitFilesystems)

NextCopy == NextOn(CopyEmissions, {1})

SpecCopy == InitCopy /\ [][NextCopy]_vars

\* The executor under batch commands of the three kinds
BatchEmissions ==
    {Emit(<<Obj(Batch("copy", PatAllT, "left", "right"))>>),
     Emit(<<Obj(Batch("move", PatAll, "left", "right"))>>),
     Emit(<<Obj(DeleteCmd(PatAllT, "left"))>>)}

BatchFilesystems ==
    {[A |-> [EmptyDir EXCEPT ![NameA] = File("x"), ![NameB] = Dir({NameA}), ![NameC] = File("x")],
      B |-> [EmptyDir EXCEPT ![NameA] = File("y"), ![NameB] = File("y")]]}

InitBatch == InitOn(BatchFilesystems) /\ win.right = "B"

NextBatch == NextWith(BatchEmissions, {1}, {"left"})

SpecBatch == InitBatch /\ [][NextBatch]_vars

\* The executor under batch commands whose pattern is a list of file names,
\* next to a move that changes what the directories hold
MultiEmissions ==
    {Emit(<<Obj(Batch("copy", PatComma, "left", "right"))>>),
     Emit(<<Obj(Batch("move", PatAnd, "right", "left"))>>),
     Emit(<<Obj(DeleteCmd(PatCyr, "right"))>>),
     Emit(<<Obj(Batch("move", PatOneL, "left", "right"))>>)}

InitMulti == InitOn(InitFilesystems)

NextMulti == NextOn(MultiEmissions, {1})

SpecMulti == InitMulti /\ [][NextMulti]_vars

\* The executor under rename commands
RenameEmissions ==
    {Emit(<<Obj(RenameCmd(NameA, NameC))>>),
     Emit(<<Obj(RenameCmd(NameA, NameB))>>),
     Emit(<<Obj(RenameCmd(NameB, NameA))>>),
     Emit(<<Obj(Cmd({"action", "message"}, "rename", EmptyParams, "m"))>>)}

InitRename == InitOn(InitFilesystems)

NextRename == NextOn(RenameEmissions, {1})

SpecRename == InitRename /\ [][NextRename]_vars

----------------------------------------------------------------------------
(* Reading the record of the on_response step just taken *)

Handled == last.dialog # 0

LastTokens == Unfence(last.emission.answer)

\* the answer parsed to a JSON object
LastIsObject ==
    /\ last.emission.success
    /\ JsonOk(LastTokens)
    /\ LastTokens[1].t = "object"

LastCmd == LastTokens[1].v

LastHasAction == LastIsObject /\ "action" \in LastCmd.keys

LastRow == CHOOSE r \in {rows[i] : i \in 1..Len(rows)} : r.id = last.message_id

\* the interpretation failed: the endpoint call failed, the answer is not the
\* expected JSON object, or the parsed action is error
InterpretationFailed ==
    /\ Handled
    /\ \/ ~last.emission.success
       \/ ~LastIsObject
       \/ ~LastHasAction
       \/ LastCmd.action = "error"

----------------------------------------------------------------------------
(* C1: when the answer parses to an object whose action is none of copy,   *)
(* move, delete, create_folder, create_file, rename or error, the pipeline *)
(* ends in Failed, the entry has status error, no file operation runs and  *)
(* the file system is unchanged.                                           *)
C1_UnknownActionFails ==
    (Handled /\ LastHasAction /\ LastCmd.action \notin KnownActions \cup {"error"})
        => /\ last.state = "Failed"
           /\ LastRow.status = "error"
           /\ ~last.called
           /\ fs = last.fsBefore

(* C2: the status of every entry starts pending and changes only from      *)
(* pending to success or error; each processed response changes the status *)
(* of exactly one entry, the one of the command it answers; an entry whose *)
(* status is success or error keeps it.                                    *)
C2_StatusChangesOnce ==
    [][/\ Len(rows') >= Len(rows)
       /\ \A i \in 1..Len(rows) :
             /\ rows'[i].id = rows[i].id
             /\ rows'[i].status # rows[i].status
                   => /\ rows[i].status = "pending"
                      /\ rows'[i].status \in {"success", "error"}
                      /\ last'.dialog # 0
                      /\ last'.message_id = rows[i].id
       /\ \A i \in (Len(rows) + 1)..Len(rows') : rows'[i].status = "pending"
       /\ (last'.dialog # 0 /\ dlg' # dlg)
             => \E i \in 1..Len(rows) :
                   /\ rows[i].id = last'.message_id
                   /\ rows[i].status = "pending"
                   /\ rows'[i].status \in {"success", "error"}]_vars

C2_Witness ==
    /\ Handled
    /\ last.statusBefore = "pending"
    /\ \E i, j \in 1..Len(rows) : rows[i].status = "success" /\ rows[j].status = "error"

(* C3: at most one command is in flight at any time.                       *)
C3_SingleInFlight ==
    Cardinality({d \in Dialogs : dlg[d].state = "Interpreting"}) <= 1

(* C4: when a command has finished and its dialog is idle again, its entry *)
(* has status success or error; an entry is pending only while its command *)
(* is in flight.                                                           *)
C4_TerminalRecorded ==
    /\ \A d \in Dialogs :
          dlg[d].state \in {"Succeeded", "Failed"}
              => StatusOf(rows, dlg[d].current_message_id) \in {"success", "error"}
    /\ \A i \in 1..Len(rows) :
          rows[i].status = "pending"
              => \E d \in Dialogs :
                    /\ dlg[d].state = "Interpreting"
                    /\ dlg[d].current_message_id = rows[i].id

C4_Witness ==
    \E d, e \in Dialogs :
        /\ dlg[d].state = "Succeeded"
        /\ dlg[e].state = "Failed"
        /\ Handled
        /\ last.reason = "executor"

(* C5: when the interpretation fails no executor operation runs, the file  *)
(* system is unchanged and the pipeline ends in Failed.                    *)
C5_FailureSkipsExecutor ==
    InterpretationFailed
        => /\ ~last.called
           /\ fs = last.fsBefore
           /\ last.state = "Failed"
           /\ dlg[last.dialog].state = "Failed"

C5_Witness ==
    /\ InterpretationFailed
    /\ LastHasAction
    /\ LastCmd.action = "error"
    /\ \E n \in Names : exists(fs, "A", n)

(* C6: every failure of the interpretation leaves the entry with status    *)
(* error and with an error message.                                        *)
C6_FailureHasMessage ==
    InterpretationFailed
        => /\ LastRow.status = "error"
           /\ LastRow.error_message # NullErr

----------------------------------------------------------------------------
(* Reading the executor operation of the on_response step just taken.  The *)
(* window is not changed by on_response, so win is the window the command  *)
(* executed with.                                                          *)

LastAction == IF LastHasAction THEN LastCmd.action ELSE Null

\* a copy, move or delete with its grammar's parameters was executed
LastIsBatch(action) ==
    /\ Handled
    /\ LastAction = action
    /\ "params" \in LastCmd.keys
    /\ {"pattern", "from"} \subseteq LastCmd.params.keys
    /\ LastCmd.params.from \in Sides
    /\ action # "delete" => ("to" \in LastCmd.params.keys /\ LastCmd.params.to \in Sides)

LastPattern == LastCmd.params.pattern

\* the source and the destination directory the command names
LastSource == PanelPath(win, LastCmd.params.from)

LastDest == PanelPath(win, LastCmd.params.to)

\* the direct entries of the source whose base name matches the pattern
LastMatched == {n \in Names : exists(last.fsBefore, LastSource, n) /\ fnmatch(n, LastPattern)}

\* the pattern lists several file names, joined by a comma or by the word and
JoinsNames(pattern) ==
    \/ Contains(pattern, <<",">>)
    \/ Contains(Lower(pattern), <<" ", "a", "n", "d", " ">>)

PosOf(n) == CHOOSE i \in 1..Len(last.res.items) : last.res.items[i] = n

\* item n is in the state the operation puts it in
ItemApplied(action, n) ==
    CASE action = "copy" -> exists(fs, LastDest, n)
      [] action = "move" -> /\ exists(fs, LastDest, n)
                            /\ LastSource # LastDest => ~exists(fs, LastSource, n)
      [] action = "delete" -> ~exists(fs, LastSource, n)

ItemUntouched(action, n) ==
    /\ fs[LastSource][n] = last.fsBefore[LastSource][n]
    /\ action # "delete" => fs[LastDest][n] = last.fsBefore[LastDest][n]

(* C8: in a copy, move or delete batch an item the operating system         *)
(* refuses makes the operation fail; the operation stops at the first item  *)
(* that fails and reports a failure naming it; the matched items listed     *)
(* before it stay applied, the items listed after it are untouched, and the *)
(* entry has status error with that failure as its message.                 *)
C8_BatchStopsAtFailure ==
    \A action \in {"copy", "move", "delete"} :
        (LastIsBatch(action) /\ ~JoinsNames(LastPattern))
            => /\ (last.locked \cap LastMatched # {}) => last.res.err.kind = "ItemFailure"
               /\ last.res.err.kind = "ItemFailure"
                     => LET bad == last.res.err.item
                        IN  /\ bad \in LastMatched
                            /\ \A n \in LastMatched :
                                  /\ PosOf(n) < PosOf(bad)
                                        => ItemApplied(action, n) /\ n \notin last.locked
                                  /\ PosOf(n) > PosOf(bad) => ItemUntouched(action, n)
                            /\ \A n \in Names \ LastMatched : ItemUntouched(action, n)
                            /\ last.state = "Failed"
                            /\ LastRow.status = "error"
                            /\ LastRow.error_message = Err("ItemFailure", bad)

C8_Witness ==
    /\ LastIsBatch("move")
    /\ last.res.err.kind = "ItemFailure"
    /\ LastSource # LastDest
    /\ \E n, m \in LastMatched :
          /\ PosOf(n) < PosOf(last.res.err.item)
          /\ PosOf(m) > PosOf(last.res.err.item)
          /\ ~exists(fs, LastSource, n)
          /\ exists(fs, LastSource, m)

LastIsRename ==
    /\ Handled
    /\ LastAction = "rename"
    /\ "params" \in LastCmd.keys
    /\ {"old_name", "new_name"} \subseteq LastCmd.params.keys

LastDir == PanelPath(win, win.active)

(* C10: rename(dir, old, new) fails with NotFound when old is missing and   *)
(* with AlreadyExists when old exists and an entry named new exists too; in *)
(* both cases the directory is unchanged and the entry has status error.    *)
C10_RenameFails ==
    LastIsRename
        => LET old == LastCmd.params.old_name
               new == LastCmd.params.new_name
               missing == ~exists(last.fsBefore, LastDir, old)
               taken == exists(last.fsBefore, LastDir, new)
           IN  /\ missing => last.res.err = Err("NotFound", old)
               /\ (~missing /\ taken) => last.res.err = Err("AlreadyExists", new)
               /\ (missing \/ taken)
                     => /\ fs = last.fsBefore
                        /\ last.state = "Failed"
                        /\ LastRow.status = "error"
                        /\ LastRow.error_message = last.res.err

C10_Witness ==
    /\ LastIsRename
    /\ LastCmd.params.old_name # LastCmd.params.new_name
    /\ last.res.err.kind = "AlreadyExists"
    /\ fs[LastDir][LastCmd.params.old_name].kind = "file"
    /\ fs[LastDir][LastCmd.params.new_name].kind # "none"
    /\ fs[LastDir][LastCmd.params.old_name] # fs[LastDir][LastCmd.params.new_name]

----------------------------------------------------------------------------
\* The executor under create commands whose name may be taken already
CreateEmissions ==
    {Emit(<<Obj(CreateFolderCmd(NameB))>>),
     Emit(<<Obj(CreateFolderCmd(NameC))>>),
     Emit(<<Obj(CreateFileCmd(NameA, "z"))>>),
     Emit(<<Obj(CreateFileCmd(NameB, "z"))>>)}

InitCreate == InitOn(InitFilesystems)

NextCreate == NextOn(CreateEmissions, {1})

SpecCreate == InitCreate /\ [][NextCreate]_vars

\* a create_folder or create_file with a name was executed
LastIsCreate(action) ==
    /\ Handled
    /\ LastAction = action
    /\ "params" \in LastCmd.keys
    /\ "name" \in LastCmd.params.keys

LastName == LastCmd.params.name

(* C11: createFolder(dir, name) when an entry named name exists in dir      *)
(* fails with AlreadyExists: no success is reported, the directory is       *)
(* unchanged, the command ends in Failed and its entry has status error.    *)
C11_CreateFolderExisting ==
    (LastIsCreate("create_folder") /\ exists(last.fsBefore, LastDir, LastName))
        => /\ last.res.err = Err("AlreadyExists", LastName)
           /\ fs = last.fsBefore
           /\ last.state = "Failed"
           /\ LastRow.status = "error"

(* C12: createFile(dir, name, content) when a file named name exists in dir *)
(* fails with AlreadyExists and the file keeps its content; the command     *)
(* ends in Failed and its entry has status error.                           *)
C12_CreateFileExisting ==
    (LastIsCreate("create_file") /\ last.fsBefore[LastDir][LastName].kind = "file")
        => /\ last.res.err = Err("AlreadyExists", LastName)
           /\ fs[LastDir][LastName] = last.fsBefore[LastDir][LastName]
           /\ last.state = "Failed"
           /\ LastRow.status = "error"

(* C13: deletePattern(P, dir).  With no direct entry of dir matching P it   *)
(* fails with NoMatch and nothing changes.  With a match and no refused     *)
(* item it succeeds; after success no direct entry of dir matches P, a      *)
(* matched directory is gone with everything below it, every entry not      *)
(* matching P is unchanged and no other directory changes.                  *)
C13_DeletePattern ==
    (LastIsBatch("delete") /\ ~JoinsNames(LastPattern))
        => /\ LastMatched = {}
                 => /\ last.res.err = Err("NoMatch", LastPattern)
                    /\ last.state = "Failed"
                    /\ fs = last.fsBefore
           /\ (LastMatched # {} /\ last.locked \cap LastMatched = {})
                 => last.res.err = NoErr /\ last.state = "Succeeded"
           /\ last.res.err = NoErr
                 => /\ \A n \in Names : fnmatch(n, LastPattern) => fs[LastSource][n] = NoEntry
                    /\ \A n \in Names \ LastMatched :
                          fs[LastSource][n] = last.fsBefore[LastSource][n]
                    /\ \A d \in Dirs \ {LastSource} : fs[d] = last.fsBefore[d]

C13_Witness ==
    /\ LastIsBatch("delete")
    /\ last.res.err = NoErr
    /\ \E n \in LastMatched :
          /\ last.fsBefore[LastSource][n].kind = "dir"
          /\ last.fsBefore[LastSource][n].kids # {}
          /\ ~exists(fs, LastSource, n)
    /\ \E n \in Names \ LastMatched : exists(fs, LastSource, n)

----------------------------------------------------------------------------
\* The executor under batch commands that leave out parameters of the
\* grammar or give a side that is neither left nor right
DefaultsEmissions ==
    {Emit(<<Obj(Cmd({"action", "params", "message"}, "delete", EmptyParams, "m"))>>),
     Emit(<<Obj(Cmd({"action", "message"}, "move", EmptyParams, "m"))>>),
     Emit(<<Obj(Batch("copy", PatAllT, "up", "down"))>>),
     Emit(<<Obj(Batch("copy", PatAllT, "left", "right"))>>)}

InitDefaults == InitOn(PipelineFilesystems)

NextDefaults == NextOn(DefaultsEmissions, {1})

SpecDefaults == InitDefaults /\ [][NextDefaults]_vars

\* the params of the command carry the pattern and the sides its action requires
ParamsComplete(cmd) ==
    /\ "params" \in cmd.keys
    /\ {"pattern", "from"} \subseteq cmd.params.keys
    /\ cmd.params.from \in Sides
    /\ cmd.action # "delete" => ("to" \in cmd.params.keys /\ cmd.params.to \in Sides)

(* C14: a copy, move or delete whose params omit pattern, from or to, or    *)
(* give a side other than left and right, is rejected: the command ends in  *)
(* Failed with status error, no directory is listed and the file system is  *)
(* unchanged; no default value stands in for the missing one.               *)
C14_ParamsValidated ==
    (Handled /\ LastAction \in {"copy", "move", "delete"} /\ ~ParamsComplete(LastCmd))
        => /\ last.state = "Failed"
           /\ LastRow.status = "error"
           /\ ~last.res.listed
           /\ fs = last.fsBefore

----------------------------------------------------------------------------
(* The history store on its own: ChatDatabase called with any arguments *)

InitStore ==
    /\ InitOn(PipelineFilesystems)
    /\ win.left = "A"
    /\ win.right = "B"

\* ChatDatabase.add_message(user_message) while the table has fewer than bound rows
AddMessage(text, bound) ==
    /\ Len(rows) < bound
    /\ LET a == add_message(rows, lastId, text)
       IN  /\ rows' = a.rows
           /\ lastId' = a.message_id
           /\ call' = [op |-> "add", count |-> a.message_id, result |-> <<>>]
    /\ UNCHANGED <<fs, win, dlg, last, panel>>

\* ChatDatabase.get_recent_history(count)
GetRecentHistory(count) ==
    /\ call' = [op |-> "recent", count |-> count,
                result |-> get_recent_history(rows, count)]
    /\ UNCHANGED <<fs, win, rows, lastId, dlg, last, panel>>

\* the messages stored by the calls
StoreTexts == {<<"g", "o">>, <<"o", "k">>}

NextRecent ==
    \/ \E t \in StoreTexts : AddMessage(t, MaxHistory)
    \/ \E count \in 0..MaxCount : GetRecentHistory(count)

SpecRecent == InitStore /\ [][NextRecent]_vars

(* C15: recentContext(n) returns exactly the min(n, size) entries with the  *)
(* largest ids, ordered by increasing id; after 10 submissions              *)
(* recentContext(6) returns the 5th to the 10th entry in that order.        *)
C15_RecentContext ==
    call.op = "recent"
        => LET n == call.count
               res == call.result
               size == Len(rows)
               k == IF n < size THEN n ELSE size
               R == {rows[i] : i \in 1..size}
           IN  /\ Len(res) = k
               /\ \A i \in 1..(k - 1) : res[i].id < res[i + 1].id
               /\ {res[i] : i \in 1..k}
                     = {r \in R : Cardinality({q \in R : q.id > r.id}) < k}
               /\ (size = 10 /\ n = 6) => res = SubSeq(rows, 5, 10)

C15_Witness ==
    /\ call.op = "recent"
    /\ call.count = 6
    /\ Len(rows) = 10
    /\ Len(call.result) = 6
    /\ call.result[1] = rows[5]
    /\ call.result[6] = rows[10]
    /\ rows[5].user_message # rows[10].user_message

\* the argument lists of update_message: the calls on_response and execute
\* make, and calls with no, one and every argument given
UpdateArgs ==
    {[ai_response |-> a[1], action |-> a[2], params |-> a[3], status |-> a[4],
      error_message |-> a[5]] :
        a \in {<<Null, Null, NullParams, Null, NullErr>>,
               <<"m", "copy", EmptyParams, Null, NullErr>>,
               <<"m", Null, NullParams, Null, NullErr>>,
               <<Null, Null, NullParams, "success", NullErr>>,
               <<Null, Null, NullParams, "error", Err("ValueError", <<>>)>>,
               <<Null, Null, NullParams, Null, Err("ValueError", <<>>)>>,
               <<"m", "copy", EmptyParams, "error", Err("ValueError", <<>>)>>}}

\* ChatDatabase.update_message(message_id, ...)
UpdateMessage(id, a) ==
    /\ rows' = update_message(rows, id, a.ai_response, a.action, a.params, a.status,
                              a.error_message)
    /\ call' = [op |-> "update", count |-> id, result |-> <<>>]
    /\ UNCHANGED <<fs, win, lastId, dlg, last, panel>>

NextUpdate ==
    \/ AddMessage(<<"g", "o">>, MaxEntries)
    \/ \E id \in 0..(MaxEntries + 1), a \in UpdateArgs : UpdateMessage(id, a)

SpecUpdate == InitStore /\ [][NextUpdate]_vars

\* the fields of an entry that update(id, fields) was given
Provided(a) ==
    {f \in {"ai_response", "action", "params", "status", "error_message"} :
        CASE f = "ai_response" -> a.ai_response # Null
          [] f = "action" -> a.action # Null
          [] f = "params" -> a.params # NullParams
          [] f = "status" -> a.status # Null
          [] f = "error_message" -> a.error_message # NullErr}

(* C16: update(id, fields) changes only the provided fields of entry id and *)
(* leaves every other field of that entry and every other entry unchanged;  *)
(* with no field provided it changes nothing in the store.                  *)
C16_UpdateFrame ==
    [][\A id \in 0..(MaxEntries + 1), a \in UpdateArgs :
          UpdateMessage(id, a)
              => /\ Len(rows') = Len(rows)
                 /\ \A i \in 1..Len(rows) :
                       /\ rows'[i].id = rows[i].id
                       /\ rows'[i].user_message = rows[i].user_message
                       /\ rows[i].id # id => rows'[i] = rows[i]
                       /\ \A f \in {"ai_response", "action", "params", "status",
                                    "error_message"} \ Provided(a) :
                             rows'[i][f] = rows[i][f]
                 /\ Provided(a) = {} => rows' = rows]_vars

C16_Witness ==
    /\ call.op = "update"
    /\ \E i, j \in 1..Len(rows) :
          /\ rows[i].id = call.count
          /\ rows[i].status = "error"
          /\ rows[i].ai_response = Null
          /\ rows[i].error_message # NullErr
          /\ rows[j].id # call.count
          /\ rows[j].status = "pending"

----------------------------------------------------------------------------
(* The file panel on its own: loads, changes of the sort mode and searches *)
(* in the left panel over a file system that holds directories and files   *)

PanelFilesystems ==
    {[A |-> [EmptyDir EXCEPT ![NameA] = File("y"), ![NameB] = Dir({NameA}), ![NameC] = File("x")],
      B |-> [EmptyDir EXCEPT ![NameA] = Dir({}), ![NameB] = File("x")]]}

InitPanel ==
    /\ InitOn(PanelFilesystems)
    /\ win.left = "A"
    /\ win.right = "B"

\* the modification times the operating system may report
MTimes ==
    {[n \in Names \cup RootNames |-> 1],
     [n \in Names \cup RootNames |-> IF n \in {NameA, <<"B">>} THEN 2 ELSE 1]}

\* what the operating system may answer during a load
LoadEnvs ==
    {LoadEnv(o, r, FALSE, u, m) :
        o \in Orders(Names), r \in {<<<<"B">>, <<"A">>>>}, u \in {{}, {NameC}}, m \in MTimes}
    \cup {LoadEnv(CanonPerm, <<<<"A">>, <<"B">>>>, TRUE, {}, CHOOSE m \in MTimes : TRUE)}

\* FilePanel.navigate_to_path with the path of a directory, or a double
\* click on a directory item: load_directory(path)
LoadDirectory(side, path, env) ==
    /\ win' = IF side = "left" THEN [win EXCEPT !.left = path] ELSE [win EXCEPT !.right = path]
    /\ panel' = [panel EXCEPT ![side] = load_directory(@, fs, path, env)]
    /\ call' = [op |-> "load", count |-> 0, result |-> <<side>>]
    /\ UNCHANGED <<fs, rows, lastId, dlg, last>>

\* FilePanel.change_sort(index), when the combo box changes to another index
ChangeSort(side, index, env) ==
    /\ SortModes[index + 1] # panel[side].sort_mode
    /\ panel' = [panel EXCEPT ![side] =
                    load_directory([@ EXCEPT !.sort_mode = SortModes[index + 1]],
                                   fs, PanelPath(win, side), env)]
    /\ call' = [op |-> "change_sort", count |-> index, result |-> <<side>>]
    /\ UNCHANGED <<fs, win, rows, lastId, dlg, last>>

\* the texts typed into the search line
SearchTexts == {<<>>, <<"A">>, <<"*", ".", "t">>, <<"(", "1">>, <<"z">>}

\* the text of search_input changes: FilePanel.filter_files
FilterFiles(side, text) ==
    /\ text # panel[side].search
    /\ panel' = [panel EXCEPT ![side] = filter_files(@, text)]
    /\ call' = [op |-> "filter", count |-> 0, result |-> <<side>>]
    /\ UNCHANGED <<fs, win, rows, lastId, dlg, last>>

NextPanel ==
    \/ \E path \in PanelPaths, env \in LoadEnvs : LoadDirectory("left", path, env)
    \/ \E index \in 0..(Len(SortModes) - 1), env \in LoadEnvs : ChangeSort("left", index, env)
    \/ \E text \in SearchTexts : FilterFiles("left", text)

SpecPanel == InitPanel /\ [][NextPanel]_vars

\* the side the panel operation just made acted on
CallSide == call.result[1]

IsParentItem(item) == item.text = <<".", ".">>

\* the kind of the entry on disk an item of the cache stands for
KindOnDisk(item) == entryAt(fs, item.path.dir, item.path.name).kind

(* C17: after every directory load, in every sort mode, the cache holds the *)
(* parent entry first if and only if the path is not the root, then the     *)
(* directories, then the files: no file entry precedes a directory entry,   *)
(* and after a load that ran to its end every entry of the directory is in  *)
(* the cache once.                                                          *)
C17_DirectoriesFirst ==
    \A side \in Sides :
        LET path == PanelPath(win, side)
            c == panel[side].all_items
            first == IF path = Root THEN 1 ELSE 2
        IN  /\ path # Root <=> (c # <<>> /\ IsParentItem(c[1]))
            /\ \A i \in first..Len(c) : ~IsParentItem(c[i]) /\ c[i].path.dir = path
            /\ \A i, j \in first..Len(c) :
                  i < j => ~(KindOnDisk(c[i]) # "dir" /\ KindOnDisk(c[j]) = "dir")
            /\ \A i, j \in first..Len(c) : i # j => c[i].path.name # c[j].path.name
            /\ panel[side].complete
                  => {c[i].path.name : i \in first..Len(c)}
                        = {n \in Names \cup RootNames : entryAt(fs, path, n).kind # "none"}

C17_Witness ==
    /\ call.op \in {"load", "change_sort"}
    /\ panel[CallSide].sort_mode = "date_desc"
    /\ panel[CallSide].complete
    /\ LET c == panel[CallSide].all_items
       IN  /\ Len(c) = 4
           /\ IsParentItem(c[1])
           /\ KindOnDisk(c[2]) = "dir"
           /\ KindOnDisk(c[3]) = "file"
           /\ c[3].path.name = NameC
           /\ c[4].path.name = NameA

(* C18: changing the sort mode re-orders the cached listing without any     *)
(* file-system access: the change of the sort mode makes no directory       *)
(* listing call.                                                            *)
C18_SortWithoutListing ==
    call.op = "change_sort" => panel[CallSide].listed = 0

(* C19: filtering performs no file-system access and leaves the cache as it *)
(* is, and filtering with the empty string shows exactly the cached entries *)
(* in cache order; so filtering with X and then with the empty string       *)
(* restores the full cached listing.                                        *)
C19_FilterKeepsCache ==
    [][\A side \in Sides, text \in SearchTexts :
          FilterFiles(side, text)
              => /\ panel'[side].all_items = panel[side].all_items
                 /\ panel'[side].listed = 0
                 /\ fs' = fs
                 /\ text = <<>> => panel'[side].file_list = panel[side].all_items
                 /\ \A other \in Sides \ {side} : panel'[other] = panel[other]]_vars

C19_Witness ==
    /\ call.op = "filter"
    /\ panel[CallSide].search # <<>>
    /\ panel[CallSide].file_list # <<>>
    /\ Len(panel[CallSide].file_list) < Len(panel[CallSide].all_items)
    /\ Len(panel[CallSide].all_items) = 4

\* the base name or the display string of the item matches the pattern, ignoring case
ItemMatches(item, pattern) ==
    \/ fnmatch(Lower(basename(item)), Lower(pattern))
    \/ fnmatch(Lower(item.text), Lower(pattern))

(* C20: filtering with a non-empty pattern P shows exactly the cached       *)
(* entries whose base name or display string matches P ignoring case, in    *)
(* cache order; when no entry matches the visible list is empty.            *)
C20_FilterMatchesPattern ==
    (call.op = "filter" /\ panel[CallSide].search # <<>>)
        => panel[CallSide].file_list
              = SelectSeq(panel[CallSide].all_items,
                          LAMBDA item : ItemMatches(item, panel[CallSide].search))

----------------------------------------------------------------------------
(* The panels after a command *)

\* the cache of the panel holds the parent item and then one item for every
\* entry its directory has now, with the kind and the size the entry has now
CacheCurrent(side) ==
    LET path == PanelPath(win, side)
        c == panel[side].all_items
        present == {n \in Names : exists(fs, path, n)}
    IN  /\ Len(c) = Cardinality(present) + 1
        /\ IsParentItem(c[1])
        /\ {c[i].path.name : i \in 2..Len(c)} = present
        /\ \A i \in 2..Len(c) :
              c[i] = IF isdir(fs, path, c[i].path.name)
                     THEN ListItem("folder", c[i].path.name, path, c[i].path.name)
                     ELSE FileItem(fs, path, c[i].path.name, QuietEnv)

C28_FailureRefreshes ==
    (Handled /\ last.state = "Failed" /\ last.reason = "executor")
        => \A side \in Sides : CacheCurrent(side)

----------------------------------------------------------------------------
(* The request of a submit *)

\* the entries the store held before the submit just made added its own
EarlierRows == SubSeq(rows, 1, Len(rows) - 1)

(* C22: the request submitted to the endpoint is the system directive,     *)
(* then the turns of the history entries oldest first (the user message of *)
(* an entry and its answer), then the new user message as the final turn.  *)
C22_RequestShape ==
    call.op = "send"
        => call.result
              = <<SystemTurn(win)>>
                \o history_turns(get_recent_history(EarlierRows, 6))
                \o <<UserTurn(rows[Len(rows)].user_message)>>

----------------------------------------------------------------------------
(* The input line during a command *)

(* C23: the input stays locked from the submit until the command is         *)
(* Succeeded or Failed: it is locked while the answer is awaited and while  *)
(* the executor runs, and it is unlocked only on reaching a terminal state. *)
C23_InputLocked ==
    /\ \A d \in Dialogs : dlg[d].state = "Interpreting" => ~dlg[d].enabled
    /\ (Handled /\ last.called) => ~last.enabled

----------------------------------------------------------------------------
(* The worker thread *)

\* the step ends the worker of dialog d
WorkerEnds(d) == dlg[d].worker = "running" /\ dlg'[d].worker # "running"

\* the step starts a worker for dialog d
WorkerStarts(d) == dlg[d].worker # "running" /\ dlg'[d].worker = "running"

\* the results of dialog d that are not delivered yet: the one its running
\* worker will emit and the ones emitted and not handled
Outstanding(d) == (IF dlg[d].worker = "running" THEN 1 ELSE 0) + Len(dlg[d].inbox)

(* C24: the worker only calls the endpoint and produces a result: the step  *)
(* that ends a worker leaves the panels, the window, the history store and  *)
(* the file system as they are and only queues one result for its dialog.   *)
C24_WorkerTouchesNothing ==
    [][\A d \in Dialogs :
          WorkerEnds(d)
              => /\ UNCHANGED <<fs, win, rows, lastId, panel>>
                 /\ Len(dlg'[d].inbox) = Len(dlg[d].inbox) + 1
                 /\ SubSeq(dlg'[d].inbox, 1, Len(dlg[d].inbox)) = dlg[d].inbox
                 /\ dlg' = [dlg EXCEPT ![d].worker = dlg'[d].worker,
                                      ![d].inbox = dlg'[d].inbox]]_vars

C24_Witness ==
    \E d, e \in Dialogs :
        /\ d # e
        /\ dlg[d].worker = "none"
        /\ Len(dlg[d].inbox) = 1
        /\ ~dlg[d].inbox[1].success
        /\ StatusOf(rows, dlg[d].current_message_id) = "pending"
        /\ dlg[e].worker = "running"

(* C25: each accepted submit starts exactly one worker, the worker delivers *)
(* exactly one result and the foreground consumes it once; a worker starts  *)
(* only with a submit, so a failure of the endpoint is not retried.         *)
C25_OneWorkerOneResult ==
    [][/\ \A d \in Dialogs :
             /\ Outstanding(d)' = IF dlg'[d].state = "Interpreting" THEN 1 ELSE 0
             /\ WorkerStarts(d)
                   => /\ Len(rows') = Len(rows) + 1
                      /\ dlg'[d].current_message_id = rows'[Len(rows')].id
                      /\ Outstanding(d) = 0
             /\ Len(dlg'[d].inbox) < Len(dlg[d].inbox)
                   => /\ Len(dlg'[d].inbox) = Len(dlg[d].inbox) - 1
                      /\ last'.dialog = d
                      /\ last'.emission = Head(dlg[d].inbox)
                      /\ dlg'[d].state \in {"Succeeded", "Failed"}
       /\ Len(rows') = Len(rows) + 1
             => Cardinality({d \in Dialogs : WorkerStarts(d)}) = 1]_vars

C25_Witness ==
    /\ Handled
    /\ ~last.emission.success
    /\ Len(rows) = 2
    /\ rows[1].status = "error"
    /\ last.message_id = rows[2].id
    /\ rows[2].status = "error"
    /\ Outstanding(last.dialog) = 0

----------------------------------------------------------------------------
(* Commands in flight while the user works in the panels, under the        *)
(* scheduling of the program: a worker thread that was started ends, when  *)
(* the endpoint call returns or raises, and the event loop handles a       *)
(* queued result.                                                          *)

FlightEmissions ==
    {[answer |-> ErrorText, success |-> FALSE],
     Emit(<<Obj(CreateFolderCmd(NameC))>>)}

FlightDialogs == {1, 2}

InitFlight ==
    /\ InitOn(PipelineFilesystems)
    /\ win.left = "A"
    /\ win.right = "B"

NextFlight == NextWith(FlightEmissions, FlightDialogs, Sides)

\* the event loop runs the slot of a queued response: the step that takes
\* the head of the inbox of the dialog d and leaves the dialog in a terminal
\* state is a step of OnResponse(d, perm, locked), and no other action of
\* the program takes anything from an inbox
Delivered(d) ==
    /\ dlg[d].inbox # <<>>
    /\ \E state \in {"Succeeded", "Failed"} :
          dlg' = [dlg EXCEPT ![d].inbox = Tail(@), ![d].enabled = TRUE,
                             ![d].state = state, ![d].submit = NoSubmit]

\* the endpoint call of a started worker returns or raises, and the event
\* loop delivers every queued response
FairFlight ==
    \A d \in FlightDialogs :
        /\ WF_vars(\E e \in FlightEmissions : WorkerReturn(d, e))
        /\ WF_dlg(Delivered(d))

SpecFlight == InitFlight /\ [][NextFlight]_vars /\ FairFlight

\* the windows a submit can report
Windows == {[left |-> l, right |-> r, active |-> a] : l \in Dirs, r \in Dirs, a \in Sides}

\* the submit just made reported the window w and is the last one the store admits
LastSubmitReported(w) ==
    /\ call.op = "send"
    /\ call.result[1].paths = w
    /\ Len(rows) = MaxEntries

\* the command of the last submit, when the executor ran it, acted on the
\* directories of the window w
ActedOn(w) ==
    (Handled /\ last.called /\ Len(rows) = MaxEntries /\ last.submit = rows[Len(rows)].id)
        => last.res.src = PanelPath(w, w.active)

(* C26: a command acts on the directories reported to the interpreter at    *)
(* its submit: when the user switches the active panel or navigates a panel *)
(* while the interpretation is in flight, the command still acts on the     *)
(* active panel and the panel paths of the submit.                          *)
C26_ActsOnSubmitTimePanels ==
    \A w \in Windows : [](LastSubmitReported(w) => [](ActedOn(w)))

(* C29: when the endpoint call returns or raises, every accepted submit     *)
(* reaches Succeeded or Failed and the input is unlocked again: a command   *)
(* in flight leads to a terminal state with the input enabled.              *)
C29_SubmitTerminates ==
    \A d \in FlightDialogs :
        (dlg[d].state = "Interpreting")
            ~> (dlg[d].state \in {"Succeeded", "Failed"} /\ dlg[d].enabled)

C29_Witness ==
    /\ Handled
    /\ Len(rows) = 2
    /\ last.message_id = rows[2].id
    /\ dlg[last.dialog].state = "Succeeded"
    /\ dlg[last.dialog].enabled
    /\ Outstanding(last.dialog) = 0
    /\ \E e \in FlightDialogs : e # last.dialog /\ dlg[e].state = "Failed"

\* the step handles a queued response of dialog d
ResponseHandled(d) == Len(dlg'[d].inbox) < Len(dlg[d].inbox)

(* C27: each response is recorded against the entry created by the submit  *)
(* that produced it, whatever the interleaving of submits and responses    *)
(* and also with several dialogs on one store: the step that handles a     *)
(* response of a dialog writes to the entry that dialog's submit appended   *)
(* and leaves every other entry of the store as it is.                      *)
C27_ResponseOnOwnEntry ==
    [][\A d \in Dialogs :
          ResponseHandled(d)
              => /\ dlg[d].submit # NoSubmit
                 /\ dlg[d].current_message_id = dlg[d].submit
                 /\ last'.message_id = dlg[d].submit
                 /\ \E i \in 1..Len(rows) : rows[i].id = dlg[d].submit
                 /\ Len(rows') = Len(rows)
                 /\ \A i \in 1..Len(rows) :
                       rows[i].id # dlg[d].submit => rows'[i] = rows[i]]_vars

\* two dialogs, the response of the later submit handled first: both entries
\* carry their own outcome
C27_Witness ==
    /\ Handled
    /\ Len(rows) = 2
    /\ last.message_id = rows[1].id
    /\ last.submit = rows[1].id
    /\ last.statusBefore = "pending"
    /\ rows[1].status = "success"
    /\ rows[2].status = "error"
    /\ \E d \in Dialogs : d # last.dialog /\ dlg[d].current_message_id = rows[2].id

(* C30: movePattern(P, A, B).  After it reports success no direct entry of *)
(* the source A matches P, every matched name exists in the destination B   *)
(* and the entries of A that do not match P are unchanged; for every pair   *)
(* of source and destination, also when both panels show one directory or   *)
(* when from and to name the same side.                                     *)
C30_MovePattern ==
    (LastIsBatch("move") /\ ~JoinsNames(LastPattern) /\ last.state = "Succeeded")
        => /\ \A n \in Names : fnmatch(n, LastPattern) => fs[LastSource][n] = NoEntry
           /\ \A n \in LastMatched : exists(fs, LastDest, n)
           /\ \A n \in Names \ LastMatched :
                 fs[LastSource][n] = last.fsBefore[LastSource][n]

----------------------------------------------------------------------------
(* Loads that fail and loads during which a file disappears *)

\* the step is a load_directory, by a navigation or by a change of the sort
\* mode, on the given side, and os.listdir raised in it
LoadFailed(side) ==
    /\ call'.op \in {"load", "change_sort"}
    /\ call'.result = <<side>>
    /\ ~panel'[side].complete

(* C31: a directory load that fails, by a refused access or by any other    *)
(* listing error, leaves the current path of the panel and its cached       *)
(* entries as they were before the load; the cache is never left partly     *)
(* rebuilt.                                                                 *)
C31_FailedLoadKeepsPanel ==
    [][\A side \in Sides :
          LoadFailed(side)
              => /\ PanelPath(win', side) = PanelPath(win, side)
                 /\ panel'[side].all_items = panel[side].all_items]_vars

----------------------------------------------------------------------------
(* Batch commands over panels whose caches are out of date *)

\* a move that can stop at an item, and deletes from either panel after it
FreshEmissions ==
    {Emit(<<Obj(Batch("move", PatAll, "left", "right"))>>),
     Emit(<<Obj(DeleteCmd(PatAll, "right"))>>),
     Emit(<<Obj(DeleteCmd(PatAllT, "left"))>>)}

InitFresh == InitOn(BatchFilesystems) /\ win.right = "B"

NextFresh == NextWith(FreshEmissions, {1}, {"left"})

SpecFresh == InitFresh /\ [][NextFresh]_vars

\* the names of the items in the cache of a panel
CachedNames(side) ==
    {panel[side].all_items[i].path.name : i \in 1..Len(panel[side].all_items)}

\* the entries the directory of the last command held when it executed
LastOnDisk == {n \in Names : exists(last.fsBefore, last.res.src, n)}

\* the items the last command selected: the ones it applied and the one it
\* stopped at
LastSelected ==
    {last.res.applied[i] : i \in 1..Len(last.res.applied)}
        \cup (IF last.res.err.kind = "ItemFailure" THEN {last.res.err.item} ELSE {})

(* C32: batch operations select their items from a fresh listing taken at   *)
(* execution time and never from the panel cache: the listing is the set of *)
(* entries the directory holds when the command executes, every selected    *)
(* item is such an entry with a matching name, and a command that succeeds  *)
(* selected every matching entry of that moment, whatever the cache holds.  *)
C32_BatchListsFresh ==
    \A action \in {"copy", "move", "delete"} :
        (LastIsBatch(action) /\ last.called /\ ~JoinsNames(LastPattern))
            => /\ {last.res.items[i] : i \in 1..Len(last.res.items)} = LastOnDisk
               /\ LastSelected \subseteq {n \in LastOnDisk : fnmatch(n, LastPattern)}
               /\ last.res.err = NoErr
                     => LastSelected = {n \in LastOnDisk : fnmatch(n, LastPattern)}
               /\ last.res.err.kind = "NoMatch"
                     => {n \in LastOnDisk : fnmatch(n, LastPattern)} = {}

\* a delete in the right panel took an entry that is not in the cache of
\* the panel (a move created it after the last load) and then stopped, so
\* the cache is still the one the command found
C32_Witness ==
    /\ LastIsBatch("delete")
    /\ last.called
    /\ last.res.src = PanelPath(win, "right")
    /\ last.state = "Failed"
    /\ \E n \in LastSelected :
          /\ n \notin CachedNames("right")
          /\ ~exists(fs, last.res.src, n)
    /\ \E n \in CachedNames("left") :
          /\ n \in Names
          /\ ~exists(last.fsBefore, PanelPath(win, "left"), n)

----------------------------------------------------------------------------
(* The history inside a request *)

\* the user turns of a request
UserTurns(messages) == {i \in 1..Len(messages) : messages[i].role = "user"}

\* the smaller of two numbers
Smaller(a, b) == IF a < b THEN a ELSE b

(* C33: the history supplied with a request is the 6 most recent earlier    *)
(* exchanges, fewer when fewer exist, followed by the current request, and  *)
(* the current user message appears in the request exactly once: the user   *)
(* turns in front of the last turn are those of the earlier entries, one    *)
(* for each, and the current message is the last turn only.                 *)
C33_CurrentMessageOnce ==
    call.op = "send"
        => LET earlier == get_recent_history(EarlierRows, 6)
               turns == UserTurns(call.result)
           IN  /\ Cardinality(turns) = Smaller(6, Len(EarlierRows)) + 1
               /\ Len(call.result) \in turns
               /\ call.result[Len(call.result)].text = rows[Len(rows)].user_message
               /\ \E pos \in [1..Len(earlier) -> turns \ {Len(call.result)}] :
                     /\ \A i, j \in 1..Len(earlier) : i < j => pos[i] < pos[j]
                     /\ \A i \in 1..Len(earlier) :
                           call.result[pos[i]].text = earlier[i].user_message

----------------------------------------------------------------------------
(* The search line against the patterns of the batch commands *)

\* the entries of the panel's directory the search selects by base name:
\* the base-name half of the test of filter_files
SearchSelected(side) ==
    LET c == panel[side].all_items
        text == Lower(panel[side].search)
    IN  {basename(c[i]) : i \in {j \in 1..Len(c) :
                                    /\ ~IsParentItem(c[j])
                                    /\ Contains(Lower(basename(c[j])), text)}}

\* the entries of the directory a copy, move or delete with the pattern
\* touches: the test of do_copy, do_move and do_delete on the listing
BatchTouched(path, pattern) ==
    {n \in Names \cup RootNames : entryAt(fs, path, n).kind # "none" /\ fnmatch(n, pattern)}

(* C34: the live search and the batch pattern operations use the same glob  *)
(* matcher on base names: for every pattern and every directory whose cache *)
(* is fresh, the entries the search selects by base name are the entries a  *)
(* copy, move or delete with that pattern would touch.                      *)
C34_SearchEqualsBatch ==
    (call.op = "filter" /\ panel[CallSide].search # <<>> /\ panel[CallSide].complete)
        => SearchSelected(CallSide)
              = BatchTouched(PanelPath(win, CallSide), panel[CallSide].search)

----------------------------------------------------------------------------
(* The order of directories under the size and the date sort modes *)

\* the positions of the directory items in the cache of a panel
DirItems(side) ==
    {i \in 1..Len(panel[side].all_items) :
        /\ ~IsParentItem(panel[side].all_items[i])
        /\ panel[side].all_items[i].icon = "folder"}

\* the directory items of the cache stand in ascending order of their
\* lower-cased names
DirsByName(side) ==
    \A i, j \in DirItems(side) :
        i < j => ~LessText(Lower(basename(panel[side].all_items[j])),
                           Lower(basename(panel[side].all_items[i])))

(* C35: under the size and the date sort modes, ascending or descending,    *)
(* directories are ordered by name and not by size or modification time.    *)
C35_DirectoriesByName ==
    (/\ call.op \in {"load", "change_sort"}
     /\ panel[CallSide].complete
     /\ panel[CallSide].sort_mode \in {"size_asc", "size_desc", "date_asc", "date_desc"})
        => DirsByName(CallSide)

----------------------------------------------------------------------------
(* The updates one response makes to its entry *)

\* One call of update_message, by its arguments
UpdateCall(ai_response, action, params, status, error_message) ==
    [ai_response |-> ai_response, action |-> action, params |-> params,
     status |-> status, error_message |-> error_message]

\* The calls of db.update_message that on_response and execute made for the
\* last response, in order: the failure branch makes one (1903-1905); a
\* parsed answer is stored by a first call (1920-1926) and the outcome by a
\* second one, for the error action (1929-1931), after the command ran
\* (1987-1989), or from an except branch (1993-1995, 1940-1942)
LastUpdates ==
    IF last.message_id = 0 THEN <<>>
    ELSE IF ~last.emission.success
    THEN <<UpdateCall(Null, Null, NullParams, "error", Err("InterpreterFailure", <<>>))>>
    ELSE LET tokens == Unfence(last.emission.answer)
         IN  IF ~JsonOk(tokens) \/ tokens[1].t # "object"
             THEN <<UpdateCall(Null, Null, NullParams, "error", Err("ParseError", <<>>))>>
             ELSE LET cmd == tokens[1].v
                  IN  <<UpdateCall(IF "message" \in cmd.keys THEN cmd.message ELSE "",
                                   IF "action" \in cmd.keys THEN cmd.action ELSE Null,
                                   IF "params" \in cmd.keys THEN cmd.params ELSE NullParams,
                                   Null, NullErr)>>
                      \o (IF "action" \notin cmd.keys
                          THEN <<UpdateCall(Null, Null, NullParams, "error",
                                            Err("KeyError", <<>>))>>
                          ELSE IF cmd.action = "error"
                          THEN <<UpdateCall(Null, Null, NullParams, "error", NullErr)>>
                          ELSE IF last.res.err = NoErr
                          THEN <<UpdateCall(Null, Null, NullParams, "success", NullErr)>>
                          ELSE <<UpdateCall(Null, Null, NullParams, "error", last.res.err)>>)

\* the store after the calls were applied one after the other
RECURSIVE ApplyUpdates(_, _, _)
ApplyUpdates(rs, id, calls) ==
    IF calls = <<>> THEN rs
    ELSE ApplyUpdates(update_message(rs, id, calls[1].ai_response, calls[1].action,
                                     calls[1].params, calls[1].status,
                                     calls[1].error_message),
                      id, Tail(calls))

\* the calls listed are the ones the handler made: applied in order to the
\* store the handler found, they give the store it left
UpdatesAccountForStore ==
    [][\A d \in Dialogs :
          ResponseHandled(d) => rows' = ApplyUpdates(rows, last'.message_id, LastUpdates')]_vars

(* C36: the store operations on one entry id are one append followed by     *)
(* exactly one update: for every command, whatever its outcome, no second   *)
(* update is applied to the same entry.                                     *)
C36_OneUpdatePerEntry ==
    Handled => Len(LastUpdates) = 1

----------------------------------------------------------------------------
(* The history store with clear_history: appends, updates and clears in    *)
(* any order.  The table holds at most MaxEntries rows at a time and gives  *)
(* out at most MaxAppends ids.                                             *)

MaxAppends == 4

\* ChatDatabase.clear_history()
ClearHistory ==
    /\ LET c == clear_history(rows, lastId)
       IN  /\ rows' = c.rows
           /\ lastId' = c.lastId
    /\ call' = [op |-> "clear", count |-> 0, result |-> <<>>]
    /\ UNCHANGED <<fs, win, dlg, last, panel>>

\* the updates the dialog makes: the answer, and a final status
ClearUpdateArgs ==
    {a \in UpdateArgs :
        \/ (a.ai_response = "m" /\ a.action = "copy" /\ a.status = Null)
        \/ (a.ai_response = Null /\ a.status # Null)}

NextClear ==
    \/ \E t \in StoreTexts : lastId < MaxAppends /\ AddMessage(t, MaxEntries)
    \/ \E id \in 1..MaxAppends, a \in ClearUpdateArgs : UpdateMessage(id, a)
    \/ ClearHistory

SpecClear == InitStore /\ [][NextClear]_vars

\* the ids of the entries in the store
StoredIds(rs) == {rs[i].id : i \in 1..Len(rs)}

(* C37: entry ids are unique and strictly increasing in insertion order     *)
(* over the whole life of the store: every id append returns is greater     *)
(* than every id returned before it, also when clear() was called in        *)
(* between.  lastId is the largest id given out so far: no step lowers it,  *)
(* no entry has a greater id, and append returns a greater one and records  *)
(* it.                                                                      *)
C37_IdsIncrease ==
    [][/\ lastId' >= lastId
       /\ \A i \in 1..Len(rows') : rows'[i].id <= lastId'
       /\ \A i, j \in 1..Len(rows') : i < j => rows'[i].id < rows'[j].id
       /\ call'.op = "add"
             => /\ call'.count > lastId
                /\ lastId' = call'.count
                /\ rows'[Len(rows')].id = call'.count
                /\ \A id \in StoredIds(rows) : id < call'.count]_vars

\* an append after a clear: the one entry of the store has the third id
C37_Witness ==
    /\ call.op = "add"
    /\ Len(rows) = 1
    /\ rows[1].id = 3
    /\ call.count = 3

(* C38: entries are never removed except by clear(): append adds exactly    *)
(* one entry in status pending and returns its id, the entry stays in the   *)
(* store across later appends and updates, and only clear() removes         *)
(* entries, all of them.                                                    *)
C38_OnlyClearRemoves ==
    [][/\ call'.op = "add"
             => /\ Len(rows') = Len(rows) + 1
                /\ SubSeq(rows', 1, Len(rows)) = rows
                /\ rows'[Len(rows')].status = "pending"
                /\ rows'[Len(rows')].id = call'.count
                /\ call'.count \notin StoredIds(rows)
       /\ call'.op = "update" => StoredIds(rows') = StoredIds(rows) /\ Len(rows') = Len(rows)
       /\ call'.op = "clear" => rows' = <<>>
       /\ ~(StoredIds(rows) \subseteq StoredIds(rows')) => call'.op = "clear"]_vars

\* an entry appended after a clear was updated and is still in the store
\* after a later append
C38_Witness ==
    /\ call.op = "add"
    /\ Len(rows) = 2
    /\ rows[1].id = 3
    /\ rows[1].status = "error"
    /\ rows[1].ai_response = "m"
    /\ rows[2].id = call.count
    /\ rows[2].status = "pending"

----------------------------------------------------------------------------
(* A file that disappears between the listing and the read of its size *)

\* the positions of the file items in the cache of a panel
FileItems(side) ==
    {i \in 1..Len(panel[side].all_items) : panel[side].all_items[i].icon = "file"}

\* os.path.getsize raised for the file of the item: the item shows the name
\* without a size
SizeUnread(item) == item.text = basename(item)

\* the size the sort saw for the file of an item
SeenSize(item) ==
    IF SizeUnread(item) THEN 0
    ELSE FileSize(entryAt(fs, item.path.dir, item.path.name).content)

(* C39: when a file is removed between the directory listing and the read  *)
(* of its size or modification time, the load still completes: the file is  *)
(* sorted as if its size or mtime were zero, it is still listed and no      *)
(* error is raised.                                                         *)
C39_UnreadableSortsAsZero ==
    (call.op \in {"load", "change_sort"} /\ panel[CallSide].complete)
        => LET c == panel[CallSide].all_items
               mode == panel[CallSide].sort_mode
               path == PanelPath(win, CallSide)
           IN  /\ \A n \in Names \cup RootNames :
                     entryAt(fs, path, n).kind = "file"
                         => \E i \in FileItems(CallSide) : basename(c[i]) = n
               /\ \A i, j \in FileItems(CallSide) :
                     i < j
                         => /\ mode = "size_asc" => SeenSize(c[i]) <= SeenSize(c[j])
                            /\ mode = "size_desc" => SeenSize(c[i]) >= SeenSize(c[j])
                            /\ mode = "date_asc" => ~(SizeUnread(c[j]) /\ ~SizeUnread(c[i]))
                            /\ mode = "date_desc" => ~(SizeUnread(c[i]) /\ ~SizeUnread(c[j]))

\* a load under the descending date sort during which the file c.l could not
\* be read: it is listed, without a size, after the file that was read
C39_Witness ==
    /\ call.op \in {"load", "change_sort"}
    /\ panel[CallSide].complete
    /\ panel[CallSide].sort_mode = "date_desc"
    /\ LET c == panel[CallSide].all_items
       IN  /\ Len(c) = 4
           /\ c[3].icon = "file"
           /\ ~SizeUnread(c[3])
           /\ c[4].icon = "file"
           /\ basename(c[4]) = <<"c", ".", "l">>
           /\ SizeUnread(c[4])

====
